---- MODULE Spec2Model ----
(***************************************************************************)
(* Model of the plugin trust-and-orchestration core of md-to-pdf:          *)
(* internal/plugins/security.go (allowlist, verifier, event log),          *)
(* internal/plugins/manager.go (discovery, load, apply, cleanup) and the   *)
(* callers that drive one Manager (internal/core/engine.go, cmd/convert).  *)
(***************************************************************************)
EXTENDS Integers, Sequences, FiniteSets, TLC

(***************************************************************************)
(* Bounds of the model.                                                    *)
(***************************************************************************)
\* length of a modelled checksum (the program's are 64 hex characters)
SumLen == 2
\* largest number of entries of the plugin directory
MaxFiles == 3
\* largest number of input files on the command line
MaxArgs == 2
\* largest number of file-change events delivered in watch mode
MaxWatchEvents == 2
\* largest number of ApplyTransformers calls on a loaded manager
MaxApply == 1

\* lines of an allowlist file
MaxLines == 2
\* characters of the text of a path handed to the path guards
MaxPathLen == 4
\* nodes under the root of a document handed to Render
MaxNodes == 2

\* truncateChecksum keeps this many characters
TruncLen == 12

(***************************************************************************)
(* Strings are sequences of one-character strings, so that suffix tests,   *)
(* substring tests and case folding are computed and not assumed.          *)
(***************************************************************************)
HexLower == {"a", "1"}
HexChars == {"a", "A", "1"}

ToLowerChar(c) == IF c = "A" THEN "a" ELSE c

\* strings.ToLower
ToLower(s) == [i \in 1..Len(s) |-> ToLowerChar(s[i])]

EqualFoldExact(s, t) == s = t

\* strings.EqualFold
EqualFold(s, t) == Len(s) = Len(t) /\ \A i \in 1..Len(s) : ToLowerChar(s[i]) = ToLowerChar(t[i])

\* strings.Contains(s, sub)
Contains(s, sub) ==
    \E i \in 0..(Len(s) - Len(sub)) : \A j \in 1..Len(sub) : s[i + j] = sub[j]

\* strings.HasSuffix(s, suf)
HasSuffix(s, suf) ==
    /\ Len(s) >= Len(suf)
    /\ \A j \in 1..Len(suf) : s[Len(s) - Len(suf) + j] = suf[j]

\* checksums as an allowlist entry may hold them, and as sha256+hex produces them
Checksums == [1..SumLen -> HexChars]
FileSums  == [1..SumLen -> HexLower]

\* file names that occur in the modelled plugin directory
NameA   == <<"a", ".", "s", "o">>
NameB   == <<"b", ".", "s", "o">>
NameDot == <<"a", ".", ".", "s", "o">>
NameC   == <<"c", ".", "s", "o">>
NameTxt == <<"a", ".", "t", "x", "t">>

(***************************************************************************)
(* A path is the sequence of its segments; an absolute path starts with    *)
(* the empty segment ("/o" is <<"", "o">>) and the empty string is <<>>.   *)
(***************************************************************************)
\* os.Getwd, when it succeeds
CwdPath == << <<>>, <<"w">> >>

\* "./p", the relative plugin directory, and "/o", a directory elsewhere
DirPlugins == << <<".">>, <<"p">> >>
DirOut     == << <<>>, <<"o">> >>
\* "../p" and the empty string
DirUp      == << <<".", ".">>, <<"p">> >>
DirEmpty   == <<>>

\* filepath.Join(dir, name)
Join(dir, name) == Append(dir, name)

IsAbs(path) == Len(path) > 0 /\ path[1] = <<>>

\* filepath.Abs, when os.Getwd succeeds
Abs(path) == IF IsAbs(path) THEN path ELSE CwdPath \o path

CleanKeepsAll(path) == path

\* filepath.Clean of a path without ".." segments: "." segments and
\* repeated separators go
Clean(path) ==
    LET keep(k) == k = 1 \/ (path[k] # <<>> /\ path[k] # <<".">>) 
        F[k \in 0..Len(path)] ==
            IF k = 0 THEN <<>>
            ELSE IF keep(k) THEN Append(F[k - 1], path[k]) ELSE F[k - 1]
    IN F[Len(path)]

\* dir is a prefix of path, the test filepath.Rel(dir, path) followed by
\* !strings.HasPrefix(rel, "..") performs on cleaned absolute paths
IsWithin(dir, path) ==
    /\ Len(dir) <= Len(path)
    /\ \A k \in 1..Len(dir) : path[k] = dir[k]

\* filepath.Base(path)
Base(path) == path[Len(path)]

(***************************************************************************)
(* Errors.                                                                 *)
(***************************************************************************)
NoErr == [type |-> "nil"]

PathTraversalError(path, reason) ==
    [type |-> "PathTraversalError", Path |-> path, Reason |-> reason]

PluginSecurityError(plugin, operation, reason, cause) ==
    [type |-> "PluginSecurityError", Plugin |-> plugin, Operation |-> operation,
     Reason |-> reason, Cause |-> cause]

\* fmt.Errorf("<msg>: %w", cause)
Wrap(msg, cause) == [type |-> "wrapped", Msg |-> msg, Cause |-> cause]

\* errors.New / fmt.Errorf without a cause
NewError(msg) == [type |-> "error", Msg |-> msg]

(***************************************************************************)
(* Security policy and allowlist.                                          *)
(***************************************************************************)
SecurityConfig(req, unsignedOk, trusted) ==
    [RequireVerification |-> req, AllowUnsignedPlugins |-> unsignedOk,
     TrustedDirectories |-> trusted]

DefaultSecurityConfig == SecurityConfig(FALSE, TRUE, {})

\* a nil *PluginAllowlist
NilAllowlist == [nil |-> TRUE, entries |-> <<>>]

AllowlistEntry(name, checksum, enabled) ==
    [Name |-> name, Checksum |-> checksum, Enabled |-> enabled]

\* the allowlists whose entries are for exactly the names ns
AllowlistsOver(ns, sums) ==
    { [nil |-> FALSE,
       entries |-> [n \in ns |-> AllowlistEntry(n, e[n][1], e[n][2])]] :
        e \in [ns -> sums \X BOOLEAN] }

NewPluginAllowlist == [nil |-> FALSE, entries |-> <<>>]

HasEntry(a, name) == name \in DOMAIN a.entries

GetExpectedChecksum(a, name) ==
    IF name \notin DOMAIN a.entries THEN <<>> ELSE a.entries[name].Checksum

IsEmpty(a) == DOMAIN a.entries = {}

(***************************************************************************)
(* Path guards and checksum.                                               *)
(***************************************************************************)
\* os.PathSeparator.  Package plugin, without which no plugin is loaded,
\* exists for linux, freebsd and darwin; the text functions are given for
\* windows as well
Separator(goos) == IF goos = "windows" THEN "\\" ELSE "/"

GOOS == "linux"

\* filepath.ToSlash: every separator of the platform becomes a slash
ToSlash(goos, text) ==
    [i \in 1..Len(text) |-> IF text[i] = Separator(goos) THEN "/" ELSE text[i]]

TraversalPatternsWithSeparator == { <<".", ".", "\\">>, <<".", ".", "/">> }

\* security.go:269-273
TraversalPatterns == { <<".", ".">>, <<".", ".", "\\">>, <<".", ".", "/">> }

\* a ".." that stands between separators or the ends of the text
containsParentSegmentIn(goos, text) ==
    \E i \in 1..(Len(text) - 1) :
        /\ text[i] = "." /\ text[i + 1] = "."
        /\ (i = 1 \/ text[i - 1] \in {"/", "\\"})
        /\ (i + 1 = Len(text) \/ text[i + 2] \in {"/", "\\"})

\* security.go:266-284, on the text of a path
containsPathTraversalIn(goos, text) ==
    \E pattern \in TraversalPatterns : Contains(ToSlash(goos, text), pattern)

\* the text of a path: its segments with a slash between them
RECURSIVE TextOf(_)
TextOf(path) ==
    IF path = <<>> THEN <<>>
    ELSE IF Len(path) = 1 THEN path[1]
    ELSE path[1] \o <<"/">> \o TextOf(Tail(path))

containsPathTraversal(path) == containsPathTraversalIn(GOOS, TextOf(path))

\* fs is what the file system answers for the path:
\*   io  : "ok", "open" (os.Open fails) or "copy" (io.Copy fails)
\*   sum : the SHA-256 of the content, hex encoded
CalculateFileChecksum(path, fs) ==
    IF containsPathTraversal(path)
    THEN [sum |-> <<>>,
          err |-> PathTraversalError(path, "file path contains traversal sequences")]
    ELSE IF fs.io = "open"
    THEN [sum |-> <<>>, err |-> Wrap("failed to open file for checksum", NewError("open"))]
    ELSE IF fs.io = "copy"
    THEN [sum |-> <<>>, err |-> Wrap("failed to compute checksum", NewError("copy"))]
    ELSE [sum |-> fs.sum, err |-> NoErr]

\* fs.getwd : whether os.Getwd succeeds
IsPathInWorkingDirectory(path, fs) ==
    IF ~fs.getwd
    THEN [ok |-> FALSE, err |-> Wrap("failed to get current working directory", NewError("getwd"))]
    ELSE [ok |-> IsWithin(CwdPath, Clean(Abs(path))), err |-> NoErr]

IsPathInTrustedDirectory(path, fs, trustedDirs) ==
    IF trustedDirs = {} THEN FALSE
    ELSE IF ~fs.getwd /\ ~IsAbs(path) THEN FALSE
    ELSE \E t \in trustedDirs :
            /\ (fs.getwd \/ IsAbs(t))
            /\ IsWithin(Clean(Abs(t)), Clean(Abs(path)))

truncateChecksum(checksum) ==
    IF Len(checksum) > TruncLen
    THEN SubSeq(checksum, 1, TruncLen) \o <<"...">>
    ELSE checksum

(***************************************************************************)
(* LoadAllowlistFromFile.  The file is what the file system has under the  *)
(* path:                                                                   *)
(*   exists : os.Open does not fail with "not exist"                       *)
(*   open   : os.Open succeeds                                             *)
(*   lines  : the lines the scanner delivers, each a string                *)
(*   scan   : the scanner ends without error                               *)
(* The length of a SHA-256 in hex, 64, is SumLen in the model.             *)
(***************************************************************************)
\* strings.TrimSpace
RECURSIVE TrimLeft(_)
TrimLeft(s) == IF s # <<>> /\ s[1] = " " THEN TrimLeft(Tail(s)) ELSE s

RECURSIVE TrimRight(_)
TrimRight(s) ==
    IF s # <<>> /\ s[Len(s)] = " " THEN TrimRight(SubSeq(s, 1, Len(s) - 1)) ELSE s

TrimSpace(s) == TrimRight(TrimLeft(s))

\* strings.HasPrefix
HasPrefix(s, prefix) == Len(s) >= Len(prefix) /\ SubSeq(s, 1, Len(prefix)) = prefix

\* strings.Split(s, sep) for a separator of one character
RECURSIVE Split(_, _)
Split(s, sep) ==
    IF \E i \in 1..Len(s) : s[i] = sep
    THEN LET i == CHOOSE j \in 1..Len(s) :
                     s[j] = sep /\ \A l \in 1..(j - 1) : s[l] # sep
         IN <<SubSeq(s, 1, i - 1)>> \o Split(SubSeq(s, i + 1, Len(s)), sep)
    ELSE <<s>>

DecodeStringAccepts(s) == TRUE

\* security.go:142, hex.DecodeString returns no error; the length is even
\* where it is called
DecodeString(s) == \A i \in 1..Len(s) : s[i] \in HexChars

Disabled == <<"d", "i", "s", "a", "b", "l", "e", "d">>

\* the error returns of the loop, each with the line number
InvalidLine(text, lineNum) ==
    [allowlist |-> NilAllowlist, err |-> NewError(<<text, lineNum>>)]

\* security.go:113-159: the loop of the scanner from line lineNum on
RECURSIVE scanFrom(_, _, _)
scanFrom(lines, lineNum, entries) ==
    IF lineNum > Len(lines) THEN [allowlist |-> [nil |-> FALSE, entries |-> entries],
                                  err |-> NoErr]
    ELSE
    LET line == TrimSpace(lines[lineNum]) IN
    IF line = <<>> \/ HasPrefix(line, <<"#">>) THEN scanFrom(lines, lineNum + 1, entries)
    ELSE
    LET parts == Split(line, ":") IN
    IF Len(parts) < 2
    THEN InvalidLine("invalid allowlist entry at line %d: expected 'name:checksum' format",
                     lineNum)
    ELSE
    LET name == TrimSpace(parts[1])
        checksum == TrimSpace(parts[2])
    IN
    IF name = <<>> \/ checksum = <<>>
    THEN InvalidLine("invalid allowlist entry at line %d: name and checksum cannot be empty",
                     lineNum)
    ELSE IF Len(checksum) # SumLen
    THEN InvalidLine("invalid checksum at line %d: expected 64 character SHA256 hash",
                     lineNum)
    ELSE IF ~DecodeString(checksum)
    THEN InvalidLine("invalid checksum at line %d: not valid hex encoding", lineNum)
    ELSE
    LET isEnabled == ~(Len(parts) >= 3 /\ TrimSpace(parts[3]) = Disabled) IN
    scanFrom(lines, lineNum + 1,
             (name :> AllowlistEntry(name, ToLower(checksum), isEnabled)) @@ entries)

IsNotExistNever(file) == FALSE

\* security.go:104, os.IsNotExist on the error of os.Open
IsNotExist(file) == ~file.exists

\* security.go:89-164
LoadAllowlistFromFile(path, file) ==
    IF path = <<>> THEN [allowlist |-> NewPluginAllowlist, err |-> NoErr]
    ELSE IF containsPathTraversal(path)
    THEN [allowlist |-> NilAllowlist,
          err |-> PathTraversalError(path, "allowlist file path contains traversal sequences")]
    ELSE IF IsNotExist(file) THEN [allowlist |-> NewPluginAllowlist, err |-> NoErr]
    ELSE IF ~file.open
    THEN [allowlist |-> NilAllowlist,
          err |-> Wrap("failed to open allowlist file", NewError("open"))]
    ELSE
    LET r == scanFrom(file.lines, 1, <<>>) IN
    IF r.err # NoErr THEN r
    ELSE IF ~file.scan
    THEN [allowlist |-> NilAllowlist,
          err |-> Wrap("error reading allowlist file", NewError("read"))]
    ELSE r

(***************************************************************************)
(* VerifyPlugin.  A message is a record of its text, the formatted         *)
(* arguments and the formatted error; the empty string is NoMsg.           *)
(***************************************************************************)
NoMsg == [text |-> "", args |-> <<>>, cause |-> NoErr]

Msg(text) == [text |-> text, args |-> <<>>, cause |-> NoErr]

\* fmt.Sprintf("<text>: %v", err)
MsgErr(text, err) == [text |-> text, args |-> <<>>, cause |-> err]

\* fmt.Sprintf("<text> %s ... %s", args...)
MsgArgs(text, args) == [text |-> text, args |-> args, cause |-> NoErr]

NewEvent(path) ==
    [Timestamp |-> 0, PluginPath |-> path, PluginName |-> Base(path), Checksum |-> <<>>,
     Success |-> FALSE, Error |-> NoMsg, SecurityWarning |-> NoMsg]

\* security.go:421-430
PathSafetyWarning(path, fs, config) ==
    LET wd == IsPathInWorkingDirectory(path, fs) IN
    IF wd.err # NoErr THEN MsgErr("could not verify path safety", wd.err)
    ELSE IF ~wd.ok /\ ~IsPathInTrustedDirectory(path, fs, config.TrustedDirectories)
    THEN Msg("plugin loaded from directory outside current working directory and trusted paths")
    ELSE NoMsg

IsAllowedIgnoringEnabled(a, name, checksum) ==
    IF name \notin DOMAIN a.entries THEN FALSE
    ELSE EqualFold(a.entries[name].Checksum, checksum)

IsAllowed(a, name, checksum) ==
    IF name \notin DOMAIN a.entries THEN FALSE
    ELSE a.entries[name].Enabled /\ EqualFold(a.entries[name].Checksum, checksum)

UseAllowlistUnlessRequired(config, allowlist) ==
    ~config.RequireVerification /\ ~allowlist.nil /\ ~IsEmpty(allowlist)

\* security.go:433, the condition that selects the allowlist branch
UseAllowlist(config, allowlist) == ~allowlist.nil /\ ~IsEmpty(allowlist)

\* security.go:434-452, the allowlist branch; ev carries checksum and warning
VerifyAgainstAllowlist(ev, path, checksum, allowlist) ==
    LET pluginName == Base(path) IN
    IF ~IsAllowed(allowlist, pluginName, checksum)
    THEN IF HasEntry(allowlist, pluginName)
         THEN [event |-> [ev EXCEPT !.Error =
                            MsgArgs("checksum mismatch: expected %s, got %s",
                                    <<truncateChecksum(GetExpectedChecksum(allowlist, pluginName)),
                                      truncateChecksum(checksum)>>)],
               err |-> PluginSecurityError(path, "verification",
                         "plugin checksum does not match allowlist", NoErr)]
         ELSE [event |-> [ev EXCEPT !.Error = Msg("plugin not in allowlist")],
               err |-> PluginSecurityError(path, "verification",
                         "plugin not found in allowlist", NoErr)]
    ELSE [event |-> [ev EXCEPT !.Success = TRUE], err |-> NoErr]

VerifyFallbackSilent(ev, path, config) ==
    IF config.RequireVerification
    THEN [event |-> [ev EXCEPT !.Error = Msg("verification required but no allowlist configured")],
          err |-> PluginSecurityError(path, "verification",
                    "plugin verification required but no allowlist is configured", NoErr)]
    ELSE IF ~config.AllowUnsignedPlugins
    THEN [event |-> [ev EXCEPT !.Error = Msg("unsigned plugins not allowed")],
          err |-> PluginSecurityError(path, "verification",
                    "unsigned plugins are not allowed by security policy", NoErr)]
    ELSE [event |-> [ev EXCEPT !.Success = TRUE], err |-> NoErr]

VerifyFallbackUnsignedFirst(ev, path, config) ==
    IF config.AllowUnsignedPlugins
    THEN [event |-> [ev EXCEPT !.SecurityWarning = Msg("plugin loaded without checksum verification"),
                               !.Success = TRUE],
          err |-> NoErr]
    ELSE IF config.RequireVerification
    THEN [event |-> [ev EXCEPT !.Error = Msg("verification required but no allowlist configured")],
          err |-> PluginSecurityError(path, "verification",
                    "plugin verification required but no allowlist is configured", NoErr)]
    ELSE [event |-> [ev EXCEPT !.Error = Msg("unsigned plugins not allowed")],
          err |-> PluginSecurityError(path, "verification",
                    "unsigned plugins are not allowed by security policy", NoErr)]

\* security.go:453-471, the branches taken without a usable allowlist
VerifyFallback(ev, path, config) ==
    IF config.RequireVerification
    THEN [event |-> [ev EXCEPT !.Error = Msg("verification required but no allowlist configured")],
          err |-> PluginSecurityError(path, "verification",
                    "plugin verification required but no allowlist is configured", NoErr)]
    ELSE IF ~config.AllowUnsignedPlugins
    THEN [event |-> [ev EXCEPT !.Error = Msg("unsigned plugins not allowed")],
          err |-> PluginSecurityError(path, "verification",
                    "unsigned plugins are not allowed by security policy", NoErr)]
    ELSE [event |-> [ev EXCEPT !.SecurityWarning = Msg("plugin loaded without checksum verification"),
                               !.Success = TRUE],
          err |-> NoErr]

ChecksumFailsNever(err) == FALSE

\* security.go:410
ChecksumFails(err) == err # NoErr

VerifyPlugin(path, fs, config, allowlist) ==
    LET cs  == CalculateFileChecksum(path, fs)
        ev0 == NewEvent(path)
    IN
    IF ChecksumFails(cs.err)
    THEN [event |-> [ev0 EXCEPT !.Error = MsgErr("failed to calculate checksum", cs.err)],
          err |-> PluginSecurityError(path, "checksum", "failed to calculate file checksum", cs.err)]
    ELSE
    LET ev1 == [ev0 EXCEPT !.Checksum = cs.sum,
                           !.SecurityWarning = PathSafetyWarning(path, fs, config)]
    IN
    IF UseAllowlist(config, allowlist)
    THEN VerifyAgainstAllowlist(ev1, path, cs.sum, allowlist)
    ELSE VerifyFallback(ev1, path, config)

(***************************************************************************)
(* Plugins.  What plugin.Open, Lookup("NewPlugin") and the factory yield   *)
(* for a library file is part of the environment:                          *)
(*   open   : plugin.Open succeeds                                         *)
(*   sym    : "ok", "missing" (no NewPlugin) or "badsig" (not func() Plugin)*)
(*   plugin : what the instance answers and how its methods behave         *)
(***************************************************************************)
NodeKinds == {"Heading", "Paragraph"}

\* GenerationPhase constants
BeforeContent  == 0
AfterContent   == 1
BeforeEachPage == 2
AfterEachPage  == 3

\* caps: the capabilities the instance implements besides Plugin
PluginDesc(name, initOk, cleanupOk, caps, priority, supported, transformOk, out, phase, generateOk) ==
    [name |-> name, initOk |-> initOk, cleanupOk |-> cleanupOk, caps |-> caps,
     priority |-> priority, supported |-> supported, transformOk |-> transformOk,
     out |-> out, phase |-> phase, generateOk |-> generateOk]

NoPlugin == PluginDesc(<<>>, FALSE, FALSE, {}, 0, {}, FALSE, "same", BeforeContent, FALSE)

Transformer(name, priority, supported, transformOk, out, cleanupOk) ==
    PluginDesc(name, TRUE, cleanupOk, {"transformer"}, priority, supported,
               transformOk, out, BeforeContent, FALSE)

Generator(name, phase, generateOk, cleanupOk) ==
    PluginDesc(name, TRUE, cleanupOk, {"generator"}, 0, {}, FALSE, "same", phase, generateOk)

NameToc == <<"t", "o", "c">>
NameHi  == <<"h", "i">>
NameMid == <<"m", "i", "d">>
NameGen == <<"g", "e", "n">>
NameBad == <<"b", "a", "d">>
NameAft == <<"a", "f", "t">>
NameGf  == <<"g", "f">>

\* the plugins of the modelled libraries
PToc100 == Transformer(NameToc, 100, {}, TRUE, "same", TRUE)
PHi10   == Transformer(NameHi, 10, {}, FALSE, "same", FALSE)
PMid50  == Transformer(NameMid, 50, {"Heading"}, TRUE, "same", FALSE)
PToc10  == Transformer(NameToc, 10, {}, TRUE, "Heading", TRUE)
PGen    == Generator(NameGen, BeforeContent, TRUE, TRUE)
PBad    == PluginDesc(NameBad, FALSE, TRUE, {"transformer", "generator"}, 0, {}, FALSE,
                      "same", BeforeContent, FALSE)

PGenAfter == Generator(NameAft, AfterContent, TRUE, TRUE)
PGenFail  == Generator(NameGf, BeforeContent, FALSE, TRUE)
PGenAfterFail == Generator(NameGf, AfterContent, FALSE, TRUE)

\* declares the name of PToc100 and PToc10, and its Init fails
PTocBad == PluginDesc(NameToc, FALSE, TRUE, {"transformer"}, 100, {}, TRUE, "same",
                      BeforeContent, FALSE)

Plugins == {PToc100, PHi10, PMid50, PToc10, PGen, PBad}

Lib(open, sym, plugin) == [open |-> open, sym |-> sym, plugin |-> plugin]

Libs ==
    {Lib(FALSE, "missing", NoPlugin), Lib(TRUE, "missing", NoPlugin), Lib(TRUE, "badsig", NoPlugin)}
    \cup { Lib(TRUE, "ok", q) : q \in Plugins }

\* an instance is what one call of the factory returned: id = <<pass, file>>
Instance(id, plugin) == [id |-> id, p |-> plugin]

\* one interaction of the manager with a candidate or an instance
Step(op, id, ok) == [op |-> op, id |-> id, ok |-> ok]

(***************************************************************************)
(* Manager.loadPlugin.  ms is the part of the manager a load changes:      *)
(* plugins, transformers, generators, events; trace records the calls.     *)
(***************************************************************************)
LogLoadAttemptOnSuccess(events, event) ==
    IF event.Success THEN Append(events, [event EXCEPT !.Timestamp = Len(events) + 1])
    ELSE events

\* PluginSecurityLogger.LogLoadAttempt: the stamp is the position in the log
LogLoadAttempt(events, event) ==
    Append(events, [event EXCEPT !.Timestamp = Len(events) + 1])

\* the deferred LogLoadAttempt and the return of loadPlugin
Return(ms, trace, event, err) ==
    [ms |-> [ms EXCEPT !.trace = trace, !.events = LogLoadAttempt(ms.events, event)],
     err |-> err]

FailedAsVerified(ms, trace, event, text, cause) ==
    Return(ms, trace, event, Wrap(text, cause))

\* manager.go:196-199, 206-209, 238-241: the event is marked failed and
\* given the error before the deferred LogLoadAttempt reads it
Failed(ms, trace, event, text, cause) ==
    Return(ms, trace, [event EXCEPT !.Success = FALSE, !.Error = MsgErr(text, cause)],
           Wrap(text, cause))

VerifyRejectsNever(verifyErr) == FALSE

\* manager.go:186
VerifyRejects(verifyErr) == verifyErr # NoErr

InitRejectsNever(initErr) == FALSE

\* manager.go:237
InitRejects(initErr) == initErr # NoErr

\* Plugin.Init of the instance
PluginInit(inst) == IF inst.p.initOk THEN NoErr ELSE NewError("init")

PutIfAbsent(registry, name, inst) == registry @@ (name :> inst)

\* manager.go:246, the assignment to the map element
Put(registry, name, inst) == (name :> inst) @@ registry

\* manager.go:245-259
Register(ms, inst) ==
    [ms EXCEPT
       !.plugins = Put(ms.plugins, inst.p.name, inst),
       !.transformers = IF "transformer" \in inst.p.caps
                        THEN Append(ms.transformers, inst) ELSE ms.transformers,
       !.generators = IF "generator" \in inst.p.caps
                      THEN (inst.p.phase :>
                              Append(IF inst.p.phase \in DOMAIN ms.generators
                                     THEN ms.generators[inst.p.phase] ELSE <<>>, inst))
                           @@ ms.generators
                      ELSE ms.generators]

loadPlugin(ms, path, fs, lib, id, config, allowlist) ==
    LET v  == VerifyPlugin(path, fs, config, allowlist)
        ev == v.event
        t1 == Append(ms.trace, Step("verify", id, v.err = NoErr))
    IN
    IF VerifyRejects(v.err)
    THEN Return(ms, t1, [ev EXCEPT !.Success = FALSE], v.err)
    ELSE
    LET t2 == Append(t1, Step("open", id, lib.open)) IN
    IF ~lib.open
    THEN Failed(ms, t2, ev, "failed to open plugin", NewError("dlopen"))
    ELSE
    LET t3 == Append(t2, Step("lookup", id, lib.sym # "missing")) IN
    IF lib.sym = "missing"
    THEN Failed(ms, t3, ev, "plugin missing NewPlugin function", NewError("lookup"))
    ELSE IF lib.sym = "badsig"
    THEN Return(ms, t3, [ev EXCEPT !.Success = FALSE, !.Error = Msg("NewPlugin has invalid signature")],
                NewError("NewPlugin has invalid signature"))
    ELSE
    LET inst == Instance(id, lib.plugin)
        ev2  == [ev EXCEPT !.PluginName = inst.p.name]
        ierr == PluginInit(inst)
        t4   == t3 \o <<Step("new", id, TRUE), Step("init", id, ierr = NoErr)>>
    IN
    IF InitRejects(ierr)
    THEN Failed(ms, t4, ev2, "failed to initialize plugin", ierr)
    ELSE Return(Register(ms, inst), Append(t4, Step("register", id, TRUE)),
                [ev2 EXCEPT !.Success = TRUE], NoErr)

(***************************************************************************)
(* Manager.LoadPlugins.                                                    *)
(***************************************************************************)
\* security.go:233-264; getwd tells whether os.Getwd succeeds
ValidatePluginPath(pluginDir, getwd) ==
    IF pluginDir = <<>>
    THEN [path |-> <<>>, err |-> PathTraversalError(pluginDir, "plugin directory path cannot be empty")]
    ELSE IF containsPathTraversal(pluginDir)
    THEN [path |-> <<>>, err |-> PathTraversalError(pluginDir, "path contains traversal sequences (..)")]
    ELSE IF ~getwd /\ ~IsAbs(pluginDir)
    THEN [path |-> <<>>, err |-> Wrap("failed to resolve plugin directory path", NewError("getwd"))]
    ELSE [path |-> Clean(Abs(pluginDir)), err |-> NoErr]

\* manager.go:151-172; the warnings go to stderr only
validatePluginDirectory(pluginDir, getwd) ==
    LET v == ValidatePluginPath(pluginDir, getwd) IN
    IF v.err # NoErr
    THEN [path |-> <<>>, err |-> Wrap("invalid plugin directory", v.err)]
    ELSE v

IsCandidateAlways(name) == TRUE

\* manager.go:131
IsCandidate(name) == HasSuffix(name, <<".", "s", "o">>)

LoadStopsAtFailure(loadErr) == loadErr # NoErr

\* manager.go:137-140: a candidate that failed is reported and the loop goes on
LoadStops(loadErr) == FALSE

\* manager.go:130-141: the candidates from position k on, one after another
RECURSIVE loadFrom(_, _, _, _, _, _, _, _)
loadFrom(ms, dir, fsys, entries, k, pass, config, allowlist) ==
    IF k > Len(entries) THEN ms
    ELSE IF ~IsCandidate(entries[k].name)
    THEN loadFrom(ms, dir, fsys, entries, k + 1, pass, config, allowlist)
    ELSE LET r == loadPlugin(ms, Join(dir, entries[k].name),
                             [io |-> entries[k].io, sum |-> entries[k].sum, getwd |-> fsys.getwd],
                             entries[k].lib, <<pass, k>>, config, allowlist)
         IN IF LoadStops(r.err) THEN r.ms
            ELSE loadFrom(r.ms, dir, fsys, entries, k + 1, pass, config, allowlist)

\* seq with x put in front of position i
InsertAt(seq, i, x) == SubSeq(seq, 1, i - 1) \o <<x>> \o SubSeq(seq, i, Len(seq))

LessNever(x, y) == FALSE

\* manager.go:144-146, the less function handed to sort.Slice
Less(x, y) == x.p.priority < y.p.priority

\* manager.go:144-146, sort.Slice: an ordering of the list in which no
\* element is less than an earlier one; the order of equal elements is
\* whatever the sort leaves (sort.Slice is not a stable sort)
RECURSIVE sortSliceOutcomes(_)
sortSliceOutcomes(seq) ==
    IF seq = <<>> THEN {<<>>}
    ELSE LET x == seq[Len(seq)]
             rest == sortSliceOutcomes(SubSeq(seq, 1, Len(seq) - 1))
         IN { InsertAt(r, i, x) : <<r, i>> \in
                { <<r, i>> \in rest \X (1..Len(seq)) :
                    /\ \A j \in 1..(i - 1) : ~Less(x, r[j])
                    /\ \A j \in i..Len(r) : ~Less(r[j], x) } }

DirMissingNever(fsys) == FALSE

\* manager.go:120, os.IsNotExist on the error of os.Stat
DirMissing(fsys) == ~fsys.exists

LoadSkippedNever(isEnabled) == FALSE

\* manager.go:107-109
LoadSkipped(isEnabled) == ~isEnabled

\* the results of LoadPlugins on manager state ms
LoadPluginsOutcomes(ms, isEnabled, dir, fsys, pass, config, allowlist) ==
    IF LoadSkipped(isEnabled) THEN {[ms |-> ms, dir |-> dir, err |-> NoErr]}
    ELSE
    LET v == validatePluginDirectory(dir, fsys.getwd) IN
    IF v.err # NoErr THEN {[ms |-> ms, dir |-> dir, err |-> v.err]}
    ELSE IF DirMissing(fsys) THEN {[ms |-> ms, dir |-> v.path, err |-> NoErr]}
    ELSE IF ~fsys.readable
    THEN {[ms |-> ms, dir |-> v.path,
           err |-> Wrap("failed to read plugin directory", NewError("readdir"))]}
    ELSE
    LET loaded == loadFrom(ms, v.path, fsys, fsys.entries, 1, pass, config, allowlist) IN
    { [ms |-> [loaded EXCEPT !.transformers = sorted], dir |-> v.path, err |-> NoErr] :
        sorted \in sortSliceOutcomes(loaded.transformers) }

(***************************************************************************)
(* Manager.ApplyTransformers.  A node is its kind and the instances that   *)
(* have transformed it, in order.                                          *)
(***************************************************************************)
Node(kind) == [kind |-> kind, by |-> <<>>]

\* ASTTransformer.Transform of the instance
Transform(inst, node) ==
    IF inst.p.transformOk
    THEN [node |-> [kind |-> IF inst.p.out = "same" THEN node.kind ELSE inst.p.out,
                    by |-> Append(node.by, inst.id)],
          err |-> NoErr]
    ELSE [node |-> node, err |-> NewError(<<"transform", inst.p.name>>)]

SupportsAlways(inst, node) == TRUE

\* manager.go:285-297
Supports(inst, node) ==
    inst.p.supported = {} \/ node.kind \in inst.p.supported

TransformAbortsNever(err) == FALSE

\* manager.go:300
TransformAborts(err) == err # NoErr

\* the Transform call of the manager on an instance, with the kind of the
\* node it handed over
TransformStep(id, kind, ok) == [op |-> "transform", id |-> id, ok |-> ok, kind |-> kind]

NextNodeKeepsInput(result, transformedNode) == result

\* manager.go:305, result = transformedNode
NextNode(result, transformedNode) == transformedNode

\* manager.go:283-307: the loop from position k on, result the working node
RECURSIVE applyFrom(_, _, _, _)
applyFrom(list, k, result, trace) ==
    IF k > Len(list) THEN [node |-> result, err |-> NoErr, trace |-> trace]
    ELSE IF ~Supports(list[k], result)
    THEN applyFrom(list, k + 1, result, trace)
    ELSE LET r == Transform(list[k], result)
             t == Append(trace, TransformStep(list[k].id, result.kind, r.err = NoErr))
         IN IF TransformAborts(r.err)
            THEN [node |-> result,
                  err |-> Wrap(<<"transformer %s failed", list[k].p.name>>, r.err),
                  trace |-> t]
            ELSE applyFrom(list, k + 1, NextNode(result, r.node), t)

\* the nil node
NilNode == [kind |-> "nil", by |-> <<>>]

ApplyTransformersFromNil(list, node, trace) == applyFrom(list, 1, NilNode, trace)

\* manager.go:280-308, result := node and the loop
ApplyTransformersResult(list, node, trace) == applyFrom(list, 1, node, trace)

(***************************************************************************)
(* Manager.GenerateContent.                                                *)
(***************************************************************************)
Phases == {BeforeContent, AfterContent, BeforeEachPage, AfterEachPage}

\* the elements a generator makes: two, marked with the instance
Element(id, n) == [gen |-> id, n |-> n]

\* ContentGenerator.Generate of the instance
Generate(inst) ==
    IF inst.p.generateOk
    THEN [elements |-> <<Element(inst.id, 1), Element(inst.id, 2)>>, err |-> NoErr]
    ELSE [elements |-> <<>>, err |-> NewError(<<"generate", inst.p.name>>)]

\* manager.go:275-277, a phase without generators gives the nil slice
GetGenerators(generators, phase) ==
    IF phase \in DOMAIN generators THEN generators[phase] ELSE <<>>

GenerateAbortsNever(err) == FALSE

\* manager.go:317
GenerateAborts(err) == err # NoErr

\* manager.go:315-322: the loop from position k on
RECURSIVE generateFrom(_, _, _, _)
generateFrom(list, k, elements, trace) ==
    IF k > Len(list) THEN [elements |-> elements, err |-> NoErr, trace |-> trace]
    ELSE LET r == Generate(list[k])
             t == Append(trace, Step("generate", list[k].id, r.err = NoErr))
         IN IF GenerateAborts(r.err)
            THEN [elements |-> elements,
                  err |-> Wrap(<<"generator %s failed", list[k].p.name>>, r.err),
                  trace |-> t]
            ELSE generateFrom(list, k + 1, elements \o r.elements, t)

GenerateContentResult(generators, phase, trace) ==
    generateFrom(GetGenerators(generators, phase), 1, <<>>, trace)

(***************************************************************************)
(* Manager.Cleanup.                                                        *)
(***************************************************************************)
\* Plugin.Cleanup of the instance
PluginCleanup(inst) ==
    IF inst.p.cleanupOk THEN NoErr ELSE NewError(<<"cleanup", inst.p.name>>)

\* the orders in which a range over the map may visit its keys
RECURSIVE Orders(_)
Orders(keys) ==
    IF keys = {} THEN {<<>>}
    ELSE UNION { { <<k>> \o o : o \in Orders(keys \ {k}) } : k \in keys }

CleanupStopsAtFirst(errors) == errors # <<>>

\* manager.go:331-335, the loop never breaks
CleanupStops(errors) == FALSE

\* manager.go:331-335 for the visiting order; errors holds "name: err"
RECURSIVE cleanupFrom(_, _, _, _, _)
cleanupFrom(registry, order, k, errors, trace) ==
    IF k > Len(order) \/ CleanupStops(errors) THEN [errors |-> errors, trace |-> trace]
    ELSE LET inst == registry[order[k]]
             e == PluginCleanup(inst)
         IN cleanupFrom(registry, order, k + 1,
                        IF e # NoErr THEN Append(errors, [name |-> order[k], err |-> e])
                        ELSE errors,
                        Append(trace, Step("cleanup", inst.id, e = NoErr)))

\* manager.go:337-341; the text joins the "name: err" items with "; "
CleanupError(errors) ==
    IF Len(errors) > 0
    THEN [type |-> "error", Msg |-> "plugin cleanup errors", items |-> errors]
    ELSE NoErr

CleanupOutcomes(registry, trace) ==
    { LET r == cleanupFrom(registry, o, 1, <<>>, trace)
      IN [err |-> CleanupError(r.errors), trace |-> r.trace] :
        o \in Orders(DOMAIN registry) }

(***************************************************************************)
(* Manager.ListPlugins.  Version and Description are what the instance     *)
(* answers; Of tells which instance that is.                               *)
(***************************************************************************)
PluginInfo(inst) == [Name |-> inst.p.name, Of |-> inst.id]

\* manager.go:345-357: one PluginInfo for every key of the map, in the
\* order in which the map is ranged over
ListPluginsOutcomes(registry) ==
    { [k \in 1..Len(o) |-> PluginInfo(registry[o[k]])] : o \in Orders(DOMAIN registry) }

(***************************************************************************)
(* State.                                                                  *)
(***************************************************************************)
VARIABLES
    vIn,            \* the arguments of a direct VerifyPlugin call
    vOut,           \* what that call returned
    enabled,        \* Manager.enabled
    pluginDir,      \* Manager.pluginDir
    securityConfig, \* Manager.securityConfig
    allowlist,      \* Manager.allowlist
    plugins,        \* Manager.plugins, name -> instance
    transformers,   \* Manager.transformers
    generators,     \* Manager.generators, phase -> list
    events,         \* Manager.logger.events
    fsys,           \* the plugin directory as the file system has it
    pc,             \* where the caller of the manager is
    pass,           \* number of LoadPlugins calls so far
    cleanups,       \* number of Cleanup calls so far
    applies,        \* number of ApplyTransformers calls so far
    trace,          \* every call made on a candidate or an instance, in order
    loadRes,        \* the last LoadPlugins call
    applyRes,       \* the last ApplyTransformers call
    generates,      \* number of GenerateContent calls so far
    genRes,         \* the last GenerateContent call
    cleanupRes,     \* the last Cleanup call
    cli             \* the convert command, or the Convert call, that drives an Engine

verifyVars == <<vIn, vOut>>

mgrVars == <<enabled, pluginDir, securityConfig, allowlist, plugins, transformers,
             generators, events>>

callVars == <<pass, cleanups, applies, trace, loadRes, applyRes, cleanupRes,
             generates, genRes>>

vars == <<vIn, vOut, enabled, pluginDir, securityConfig, allowlist, plugins,
          transformers, generators, events, fsys, pc, pass, cleanups, applies,
          trace, loadRes, applyRes, cleanupRes, cli, generates, genRes>>

(***************************************************************************)
(* The manager after construction, and the plugin directories it may meet. *)
(***************************************************************************)
NoCall == [done |-> FALSE]

\* no command line: the manager is called directly
NoCommand == [watch |-> FALSE]

\* the two checksums of the modelled library files
SumA == [i \in 1..SumLen |-> "a"]
Sum1 == [i \in 1..SumLen |-> "1"]

\* as LoadAllowlistFromFile leaves it: a.so listed, b.so listed but disabled
FileAllowlist ==
    [nil |-> FALSE,
     entries |-> (NameA :> AllowlistEntry(NameA, SumA, TRUE))
              @@ (NameB :> AllowlistEntry(NameB, SumA, FALSE))]

\* NewManager; NewManagerWithSecurity with a strict policy and no allowlist
\* path; NewManagerWithSecurity with an allowlist file
ManagerPolicies ==
    { <<DefaultSecurityConfig, NilAllowlist>>,
      <<SecurityConfig(TRUE, TRUE, {}), NewPluginAllowlist>>,
      <<DefaultSecurityConfig, FileAllowlist>> }

DirEntry(name, io, sum, lib) == [name |-> name, io |-> io, sum |-> sum, lib |-> lib]

\* what a directory may hold under a name
EntriesNamed(name) ==
    IF name = NameDot THEN {DirEntry(name, "ok", SumA, Lib(TRUE, "ok", PToc100))}
    ELSE IF name = NameTxt THEN {DirEntry(name, "ok", SumA, Lib(TRUE, "ok", PGen))}
    ELSE {DirEntry(name, "open", <<>>, Lib(FALSE, "missing", NoPlugin))}
         \cup { DirEntry(name, "ok", sm, l) :
                  sm \in (IF name = NameA THEN {SumA, Sum1} ELSE {SumA}), l \in Libs }

\* os.ReadDir returns the entries sorted by file name
NameOrder == <<NameDot, NameA, NameTxt, NameB, NameC>>

\* the listings of at most max entries under the given names, of those
\* at position k and later in the order
RECURSIVE ListingsFrom(_, _, _)
ListingsFrom(names, max, k) ==
    IF k > Len(NameOrder) \/ max = 0 THEN {<<>>}
    ELSE LET without == ListingsFrom(names, max, k + 1) IN
         IF NameOrder[k] \notin names THEN without
         ELSE without \cup
              { <<e>> \o l : e \in EntriesNamed(NameOrder[k]),
                             l \in ListingsFrom(names, max - 1, k + 1) }

Listings(names, max) == ListingsFrom(names, max, 1)

FileSys(getwd, exists, readable, entries) ==
    [getwd |-> getwd, exists |-> exists, readable |-> readable, entries |-> entries]

InitManager(isEnabled, dir, policy) ==
    /\ enabled = isEnabled
    /\ pluginDir = dir
    /\ securityConfig = policy[1]
    /\ allowlist = policy[2]
    /\ plugins = <<>>
    /\ transformers = <<>>
    /\ generators = <<>>
    /\ events = <<>>
    /\ pass = 0 /\ cleanups = 0 /\ applies = 0 /\ generates = 0
    /\ trace = <<>>
    /\ loadRes = NoCall /\ applyRes = NoCall /\ cleanupRes = NoCall
    /\ genRes = NoCall

\* an enabled manager on a readable directory of up to MaxFiles entries
InitLoadable ==
    /\ \E policy \in ManagerPolicies : InitManager(TRUE, DirPlugins, policy)
    /\ fsys \in { FileSys(TRUE, TRUE, TRUE, l) :
                    l \in Listings({NameDot, NameA, NameTxt, NameB, NameC}, MaxFiles) }

\* every other manager: disabled, or on a directory that is empty-named,
\* a traversal, missing or unreadable
InitOther ==
    /\ \E e \in BOOLEAN, d \in {DirPlugins, DirOut, DirUp, DirEmpty} :
          InitManager(e, d, <<DefaultSecurityConfig, NilAllowlist>>)
    /\ fsys \in { FileSys(g, x, r, l) : g \in BOOLEAN, x \in BOOLEAN, r \in BOOLEAN,
                    l \in Listings({NameA}, 1) }

Init ==
    /\ vIn = NoCall /\ vOut = NoCall
    /\ pc = "new"
    /\ cli = NoCommand
    /\ (InitLoadable \/ InitOther)

(***************************************************************************)
(* The calls on a manager.                                                 *)
(***************************************************************************)
LoadState == [plugins |-> plugins, transformers |-> transformers,
              generators |-> generators, events |-> events, trace |-> trace]

DoLoadPlugins ==
    /\ \E o \in LoadPluginsOutcomes(LoadState, enabled, pluginDir, fsys, pass + 1,
                                     securityConfig, allowlist) :
          /\ plugins' = o.ms.plugins
          /\ transformers' = o.ms.transformers
          /\ generators' = o.ms.generators
          /\ events' = o.ms.events
          /\ trace' = o.ms.trace
          /\ pluginDir' = o.dir
          /\ loadRes' = [done |-> TRUE, err |-> o.err, from |-> Len(trace),
                         before |-> LoadState, dir |-> pluginDir]
    /\ pass' = pass + 1
    /\ UNCHANGED <<enabled, securityConfig, allowlist, fsys, cleanups, applies,
                   applyRes, cleanupRes, generates, genRes>>

DoApplyTransformers(kind) ==
    /\ LET r == ApplyTransformersResult(transformers, Node(kind), trace) IN
          /\ applyRes' = [done |-> TRUE, in |-> Node(kind), node |-> r.node,
                          err |-> r.err, from |-> Len(trace)]
          /\ trace' = r.trace
    /\ applies' = applies + 1
    /\ UNCHANGED <<mgrVars, fsys, pass, cleanups, loadRes, cleanupRes, generates, genRes>>

DoCleanup ==
    /\ \E o \in CleanupOutcomes(plugins, trace) :
          /\ cleanupRes' = [done |-> TRUE, err |-> o.err, from |-> Len(trace)]
          /\ trace' = o.trace
    /\ cleanups' = cleanups + 1
    /\ UNCHANGED <<mgrVars, fsys, pass, applies, loadRes, applyRes, generates, genRes>>

DoGenerateContent(phase) ==
    /\ LET r == GenerateContentResult(generators, phase, trace) IN
          /\ genRes' = [done |-> TRUE, phase |-> phase, elements |-> r.elements,
                        err |-> r.err, from |-> Len(trace)]
          /\ trace' = r.trace
    /\ generates' = generates + 1
    /\ UNCHANGED <<mgrVars, fsys, pass, cleanups, applies, loadRes, applyRes, cleanupRes>>

(***************************************************************************)
(* A manager used as its lifecycle prescribes: LoadPlugins once, then      *)
(* ApplyTransformers any number of times, then Cleanup once.               *)
(***************************************************************************)
LoadPlugins ==
    /\ pc = "new"
    /\ DoLoadPlugins
    /\ pc' = IF loadRes'.err = NoErr THEN "loaded" ELSE "done"
    /\ UNCHANGED <<verifyVars, cli>>

ApplyTransformers ==
    /\ pc = "loaded"
    /\ applies < MaxApply
    /\ \E kind \in NodeKinds : DoApplyTransformers(kind)
    /\ UNCHANGED <<pc, verifyVars, cli>>

GenerateContent ==
    /\ pc = "loaded"
    /\ generates < MaxApply
    /\ \E phase \in Phases : DoGenerateContent(phase)
    /\ UNCHANGED <<pc, verifyVars, cli>>

Cleanup ==
    /\ pc = "loaded"
    /\ DoCleanup
    /\ pc' = "done"
    /\ UNCHANGED <<verifyVars, cli>>

Next == LoadPlugins \/ ApplyTransformers \/ Cleanup

Spec == Init /\ [][Next]_vars

(***************************************************************************)
(* LoadAllowlistFromFile called directly.  A line of the file is given by  *)
(* what it is (blank, comment, without colon, entry) together with its     *)
(* text, so that the text that is parsed can be compared with what was     *)
(* written into it.                                                        *)
(***************************************************************************)
Colon == <<":">>

EntryLine(name, sum, isDisabled) ==
    [kind |-> "entry", name |-> name, sum |-> sum, disabled |-> isDisabled,
     text |-> name \o Colon \o sum \o (IF isDisabled THEN Colon \o Disabled ELSE <<>>)]

\* an entry with blanks around its fields
PaddedLine(name, sum) ==
    [kind |-> "entry", name |-> name, sum |-> sum, disabled |-> FALSE,
     text |-> <<" ">> \o name \o <<" ">> \o Colon \o <<" ">> \o sum \o <<" ">>]

OtherLine(kind, text) ==
    [kind |-> kind, name |-> <<>>, sum |-> <<>>, disabled |-> FALSE, text |-> text]

\* checksums as a file may hold them: in lower case, in upper case, with a
\* character that is no hex digit, too short, too long, missing
SumUpper == [i \in 1..SumLen |-> "A"]
SumNoHex == [i \in 1..SumLen |-> IF i = 1 THEN "g" ELSE "a"]
SumShort == [i \in 1..(SumLen - 1) |-> "a"]
SumLong  == [i \in 1..(SumLen + 1) |-> "a"]

FileLines ==
    { OtherLine("blank", <<>>), OtherLine("blank", <<" ">>),
      OtherLine("comment", <<"#", "a", ":", "1">>),
      OtherLine("nocolon", <<"a", ".", "s", "o">>),
      PaddedLine(NameA, SumUpper) }
    \cup { EntryLine(n, sm, dis) :
             n \in {NameA, NameB},
             sm \in {SumA, SumUpper, SumNoHex, SumShort, SumLong, <<>>},
             dis \in BOOLEAN }

\* the files of at most MaxLines lines
RECURSIVE FilesOf(_)
FilesOf(n) ==
    IF n = 0 THEN {<<>>}
    ELSE FilesOf(n - 1)
         \cup { Append(f, l) : f \in { g \in FilesOf(n - 1) : Len(g) = n - 1 },
                                l \in FileLines }

AllowlistPath == << <<>>, <<"o">>, <<"a", "l">> >>

File(exists, open, scan, descs) ==
    [exists |-> exists, open |-> open, scan |-> scan, descs |-> descs,
     lines |-> [k \in 1..Len(descs) |-> descs[k].text]]

InitLoadAllowlist ==
    /\ vIn \in { [path |-> AllowlistPath, file |-> File(TRUE, TRUE, TRUE, f)] :
                    f \in FilesOf(MaxLines) }
               \cup { [path |-> p, file |-> File(x, o, sc, <<EntryLine(NameA, SumA, FALSE)>>)] :
                        p \in {<<>>, AllowlistPath, << <<>>, <<".", ".">>, <<"a", "l">> >>},
                        x \in BOOLEAN, o \in BOOLEAN, sc \in BOOLEAN }
    /\ vOut = NoCall
    /\ pc = "loadAllowlist"
    /\ cli = NoCommand
    /\ InitManager(FALSE, DirPlugins, <<DefaultSecurityConfig, NilAllowlist>>)
    /\ fsys = FileSys(TRUE, FALSE, FALSE, <<>>)

CallLoadAllowlistFromFile ==
    /\ pc = "loadAllowlist"
    /\ ~vOut.done
    /\ LET r == LoadAllowlistFromFile(vIn.path, vIn.file) IN
       vOut' = [done |-> TRUE, allowlist |-> r.allowlist, err |-> r.err]
    /\ UNCHANGED <<vIn, mgrVars, callVars, fsys, pc, cli>>

NextLoadAllowlist == CallLoadAllowlistFromFile

SpecLoadAllowlist == InitLoadAllowlist /\ [][NextLoadAllowlist]_vars

(***************************************************************************)
(* A manager on a directory of content generators: LoadPlugins once, then  *)
(* GenerateContent for any phase, then Cleanup once.                       *)
(***************************************************************************)
GeneratorLibs == { Lib(TRUE, "ok", q) : q \in {PGen, PGenAfter, PGenFail, PToc100} }

\* a.so, then b.so, then c.so, each holding one of the libraries
GeneratorListings ==
    {<<>>}
    \cup { <<DirEntry(NameA, "ok", SumA, a)>> : a \in GeneratorLibs }
    \cup { <<DirEntry(NameA, "ok", SumA, a), DirEntry(NameB, "ok", SumA, b)>> :
             a \in GeneratorLibs, b \in GeneratorLibs }
    \cup { <<DirEntry(NameA, "ok", SumA, a), DirEntry(NameB, "ok", SumA, b),
              DirEntry(NameC, "ok", SumA, c)>> :
             a \in GeneratorLibs, b \in GeneratorLibs, c \in GeneratorLibs }

InitGenerate ==
    /\ vIn = NoCall /\ vOut = NoCall
    /\ pc = "new"
    /\ cli = NoCommand
    /\ InitManager(TRUE, DirPlugins, <<DefaultSecurityConfig, NilAllowlist>>)
    /\ fsys \in { FileSys(TRUE, TRUE, TRUE, l) : l \in GeneratorListings }

NextGenerate == LoadPlugins \/ GenerateContent \/ Cleanup

SpecGenerate == InitGenerate /\ [][NextGenerate]_vars

(***************************************************************************)
(* A manager on a directory of libraries that declare names of each        *)
(* other: LoadPlugins once, then ListPlugins, then Cleanup once.           *)
(***************************************************************************)
RegistryLibs == { Lib(TRUE, "ok", q) : q \in {PToc100, PToc10, PTocBad, PHi10} }

\* a.so, then b.so, then c.so, each holding one of the libraries
RegistryListings ==
    {<<>>}
    \cup { <<DirEntry(NameA, "ok", SumA, a)>> : a \in RegistryLibs }
    \cup { <<DirEntry(NameA, "ok", SumA, a), DirEntry(NameB, "ok", SumA, b)>> :
             a \in RegistryLibs, b \in RegistryLibs }
    \cup { <<DirEntry(NameA, "ok", SumA, a), DirEntry(NameB, "ok", SumA, b),
              DirEntry(NameC, "ok", SumA, c)>> :
             a \in RegistryLibs, b \in RegistryLibs, c \in RegistryLibs }

InitRegistry ==
    /\ vIn = NoCall /\ vOut = NoCall
    /\ pc = "new"
    /\ cli = NoCommand
    /\ InitManager(TRUE, DirPlugins, <<DefaultSecurityConfig, NilAllowlist>>)
    /\ fsys \in { FileSys(TRUE, TRUE, TRUE, l) : l \in RegistryListings }

\* vOut holds the list the call returned
ListPlugins ==
    /\ pc = "loaded"
    /\ ~vOut.done
    /\ \E l \in ListPluginsOutcomes(plugins) : vOut' = [done |-> TRUE, list |-> l]
    /\ UNCHANGED <<vIn, mgrVars, callVars, fsys, pc, cli>>

NextRegistry == LoadPlugins \/ ListPlugins \/ Cleanup

SpecRegistry == InitRegistry /\ [][NextRegistry]_vars

(***************************************************************************)
(* VerifyPlugin called directly, on every path, file, policy and           *)
(* allowlist of the bounded sets.                                          *)
(***************************************************************************)
\* what the file system answers for a candidate path
FileViews ==
    { [io |-> "ok", sum |-> s, getwd |-> g] : s \in FileSums, g \in BOOLEAN }
    \cup
    { [io |-> i, sum |-> <<>>, getwd |-> g] : i \in {"open", "copy"}, g \in BOOLEAN }

SecurityConfigs ==
    { SecurityConfig(r, u, t) : r \in BOOLEAN, u \in BOOLEAN, t \in SUBSET {DirOut} }

\* an entry for another plugin, never the candidate's own
OtherEntry == AllowlistEntry(NameB, [i \in 1..SumLen |-> "1"], TRUE)

VerifyAllowlists ==
    {NilAllowlist, NewPluginAllowlist}
    \cup AllowlistsOver({NameA}, Checksums)
    \cup { [nil |-> FALSE, entries |-> (NameB :> OtherEntry)] }
    \cup { [nil |-> FALSE, entries |-> (NameB :> OtherEntry) @@ a.entries] :
             a \in AllowlistsOver({NameA}, Checksums) }

VerifyPaths ==
    { Join(d, n) : d \in {DirPlugins, DirOut, Join(DirOut, <<"s">>)},
                   n \in {NameA, NameC, NameDot} }

InitVerify ==
    /\ vIn \in [path : VerifyPaths, fs : FileViews,
                config : SecurityConfigs, allowlist : VerifyAllowlists]
    /\ vOut = NoCall
    /\ pc = "verify"
    /\ cli = NoCommand
    /\ InitManager(FALSE, DirPlugins, <<DefaultSecurityConfig, NilAllowlist>>)
    /\ fsys = FileSys(TRUE, FALSE, FALSE, <<>>)

CallVerifyPlugin ==
    /\ ~vOut.done
    /\ LET r == VerifyPlugin(vIn.path, vIn.fs, vIn.config, vIn.allowlist) IN
       vOut' = [done |-> TRUE, event |-> r.event, err |-> r.err]
    /\ UNCHANGED <<vIn, mgrVars, callVars, fsys, pc, cli>>

NextVerify == CallVerifyPlugin

SpecVerify == InitVerify /\ [][NextVerify]_vars

(***************************************************************************)
(* The queries of an allowlist, called directly on every allowlist, name   *)
(* and checksum of the bounded sets.                                       *)
(***************************************************************************)
InitAllowlist ==
    /\ vIn \in [allowlist : VerifyAllowlists \ {NilAllowlist},
                 name : {NameA, NameB, NameC}, checksum : Checksums]
    /\ vOut = NoCall
    /\ pc = "allowlist"
    /\ cli = NoCommand
    /\ InitManager(FALSE, DirPlugins, <<DefaultSecurityConfig, NilAllowlist>>)
    /\ fsys = FileSys(TRUE, FALSE, FALSE, <<>>)

CallIsAllowed ==
    /\ pc = "allowlist"
    /\ ~vOut.done
    /\ vOut' = [done |-> TRUE,
                allowed |-> IsAllowed(vIn.allowlist, vIn.name, vIn.checksum),
                has |-> HasEntry(vIn.allowlist, vIn.name),
                expected |-> GetExpectedChecksum(vIn.allowlist, vIn.name)]
    /\ UNCHANGED <<vIn, mgrVars, callVars, fsys, pc, cli>>

NextAllowlist == CallIsAllowed

SpecAllowlist == InitAllowlist /\ [][NextAllowlist]_vars

(***************************************************************************)
(* The path guards, called directly on every text of at most MaxPathLen    *)
(* characters: a dot, the two separators and a letter.                     *)
(***************************************************************************)
PathChars == {".", "/", "\\", "p"}

RECURSIVE TextsOf(_)
TextsOf(n) ==
    IF n = 0 THEN {<<>>}
    ELSE TextsOf(n - 1)
         \cup { Append(t, c) : t \in { u \in TextsOf(n - 1) : Len(u) = n - 1 },
                                c \in PathChars }

\* the path a text names where the separator is the slash
PathOf(text) == IF text = <<>> THEN <<>> ELSE Split(text, "/")

Platforms == {"linux", "windows"}

InitGuards ==
    /\ vIn \in [text : TextsOf(MaxPathLen), getwd : BOOLEAN, exists : BOOLEAN]
    /\ vOut = NoCall
    /\ pc = "guards"
    /\ cli = NoCommand
    /\ InitManager(FALSE, DirPlugins, <<DefaultSecurityConfig, NilAllowlist>>)
    /\ fsys = FileSys(TRUE, FALSE, FALSE, <<>>)

\* containsPathTraversal, ValidatePluginPath, LoadAllowlistFromFile and
\* CalculateFileChecksum on the same text
CallGuards ==
    /\ pc = "guards"
    /\ ~vOut.done
    /\ LET path == PathOf(vIn.text) IN
       vOut' = [done |-> TRUE,
                traversal |-> [goos \in Platforms |->
                                 containsPathTraversalIn(goos, vIn.text)],
                validate |-> ValidatePluginPath(path, vIn.getwd),
                load |-> LoadAllowlistFromFile(path,
                           File(vIn.exists, TRUE, TRUE, <<EntryLine(NameA, SumA, FALSE)>>)),
                checksum |-> CalculateFileChecksum(path,
                               [io |-> IF vIn.exists THEN "ok" ELSE "open",
                                sum |-> IF vIn.exists THEN SumA ELSE <<>>,
                                getwd |-> vIn.getwd])]
    /\ UNCHANGED <<vIn, mgrVars, callVars, fsys, pc, cli>>

NextGuards == CallGuards

SpecGuards == InitGuards /\ [][NextGuards]_vars

(***************************************************************************)
(* Properties of VerifyPlugin.                                             *)
(***************************************************************************)
\* the checksum step (step 1) produced a checksum for the candidate
ChecksumComputed == ~containsPathTraversal(vIn.path) /\ vIn.fs.io = "ok"

AllowlistNonEmpty == ~vIn.allowlist.nil /\ DOMAIN vIn.allowlist.entries # {}

\* the basename has an entry at all
NameListed == Base(vIn.path) \in DOMAIN vIn.allowlist.entries

\* the basename has an enabled entry whose checksum is the file's, case ignored
ListedEnabledMatching ==
    /\ ChecksumComputed
    /\ NameListed
    /\ vIn.allowlist.entries[Base(vIn.path)].Enabled
    /\ ToLower(vIn.allowlist.entries[Base(vIn.path)].Checksum) = ToLower(vIn.fs.sum)

IsSecurityError(e) == e.type = "PluginSecurityError"

\* C2: with a non-empty allowlist, verify succeeds exactly when the basename
\* has an enabled entry whose checksum equals the computed checksum of the
\* file, letter case ignored; the result is the same for every value of
\* RequireVerification and AllowUnsignedPlugins.
Thm_C2 ==
    (vOut.done /\ AllowlistNonEmpty) =>
        /\ (vOut.err = NoErr) <=> ListedEnabledMatching
        /\ \A r \in BOOLEAN, u \in BOOLEAN :
             LET alt == VerifyPlugin(vIn.path, vIn.fs,
                           [vIn.config EXCEPT !.RequireVerification = r,
                                              !.AllowUnsignedPlugins = u],
                           vIn.allowlist)
             IN alt.err = vOut.err /\ alt.event = vOut.event

\* C2 witness: an entry stored in upper case authorised a file whose
\* checksum is in lower case, although verification was required
Wit_C2 ==
    /\ vOut.done /\ AllowlistNonEmpty /\ vOut.err = NoErr
    /\ vIn.config.RequireVerification /\ ~vIn.config.AllowUnsignedPlugins
    /\ vIn.allowlist.entries[Base(vIn.path)].Checksum # vIn.fs.sum

\* C3 as stated: with a non-empty allowlist, every candidate that is not
\* allowed is refused with operation "verification" and the reason that
\* tells a listed name from an unlisted one.
Orig_C3 ==
    (vOut.done /\ AllowlistNonEmpty /\ ~ListedEnabledMatching) =>
        /\ IsSecurityError(vOut.err)
        /\ vOut.err.Operation = "verification"
        /\ vOut.err.Reason = IF NameListed
                             THEN "plugin checksum does not match allowlist"
                             ELSE "plugin not found in allowlist"

\* C3 amended: the same for every candidate whose checksum was computed; a
\* listed but disabled entry is reported by HasEntry and never authorises.
Thm_C3 ==
    (vOut.done /\ AllowlistNonEmpty /\ ChecksumComputed /\ ~ListedEnabledMatching) =>
        /\ IsSecurityError(vOut.err)
        /\ vOut.err.Operation = "verification"
        /\ vOut.err.Reason = IF NameListed
                             THEN "plugin checksum does not match allowlist"
                             ELSE "plugin not found in allowlist"
        /\ (NameListed /\ ~vIn.allowlist.entries[Base(vIn.path)].Enabled) =>
              /\ HasEntry(vIn.allowlist, Base(vIn.path))
              /\ ~vOut.event.Success

\* C3 witness: a disabled entry with the matching checksum was refused
Wit_C3 ==
    /\ vOut.done /\ ChecksumComputed /\ NameListed
    /\ ~vIn.allowlist.entries[Base(vIn.path)].Enabled
    /\ ToLower(vIn.allowlist.entries[Base(vIn.path)].Checksum) = vIn.fs.sum
    /\ vOut.err # NoErr

\* C4: with RequireVerification and no usable allowlist, verify fails with
\* a security error for every candidate and either value of
\* AllowUnsignedPlugins.
Thm_C4 ==
    (vOut.done /\ ~AllowlistNonEmpty /\ vIn.config.RequireVerification) =>
        /\ IsSecurityError(vOut.err)
        /\ ~vOut.event.Success

\* C4 witness: refused although unsigned plugins are allowed and the file is readable
Wit_C4 ==
    /\ vOut.done /\ ~AllowlistNonEmpty /\ vIn.config.RequireVerification
    /\ vIn.config.AllowUnsignedPlugins /\ ChecksumComputed
    /\ IsSecurityError(vOut.err)

\* C5 as stated: with no usable allowlist and RequireVerification off,
\* verify succeeds iff AllowUnsignedPlugins; the success carries
\* success=true and a warning, the failure is a security error.
Orig_C5 ==
    (vOut.done /\ ~AllowlistNonEmpty /\ ~vIn.config.RequireVerification) =>
        /\ (vOut.err = NoErr) <=> vIn.config.AllowUnsignedPlugins
        /\ (vOut.err = NoErr) =>
              /\ vOut.event.Success
              /\ vOut.event.SecurityWarning.text = "plugin loaded without checksum verification"
        /\ ~vIn.config.AllowUnsignedPlugins => IsSecurityError(vOut.err)

\* C5 amended: the same for every candidate whose checksum was computed.
Thm_C5 ==
    (vOut.done /\ ~AllowlistNonEmpty /\ ~vIn.config.RequireVerification /\ ChecksumComputed) =>
        /\ (vOut.err = NoErr) <=> vIn.config.AllowUnsignedPlugins
        /\ (vOut.err = NoErr) =>
              /\ vOut.event.Success
              /\ vOut.event.SecurityWarning.text = "plugin loaded without checksum verification"
        /\ ~vIn.config.AllowUnsignedPlugins =>
              /\ IsSecurityError(vOut.err)
              /\ vOut.err.Reason = "unsigned plugins are not allowed by security policy"

\* C5 witness: an unverified load went through with the warning
Wit_C5 ==
    /\ vOut.done /\ ~AllowlistNonEmpty /\ ~vIn.config.RequireVerification
    /\ vIn.config.AllowUnsignedPlugins /\ vOut.err = NoErr
    /\ vOut.event.SecurityWarning # NoMsg

(***************************************************************************)
(* The convert command: one Engine, and so one Manager, for the run;       *)
(* Engine.Convert is called once for every input file and, in watch mode,  *)
(* once more for every change of a watched file.                           *)
(***************************************************************************)
\* the convert command with its flags and the number of its input files:
\* any number of files without --watch, one watched file with it
Command(watch, jsonMode, args) ==
    [watch |-> watch, jsonMode |-> jsonMode, args |-> args,
     i |-> 0, changes |-> 0, err |-> NoErr]

\* the plugin directories of a run
EngineListings ==
    { <<>>,
      <<DirEntry(NameA, "ok", SumA, Lib(TRUE, "ok", PHi10))>>,
      <<DirEntry(NameA, "ok", SumA, Lib(TRUE, "ok", PToc100)),
        DirEntry(NameB, "ok", SumA, Lib(TRUE, "ok", PGen))>> }

\* NewEngine: plugins.NewManager(config.Plugins.Directory, config.Plugins.Enabled)
InitEngine ==
    /\ vIn = NoCall /\ vOut = NoCall
    /\ pc = "run"
    /\ cli \in { Command(FALSE, j, n) : j \in BOOLEAN, n \in 1..MaxArgs }
               \cup {Command(TRUE, FALSE, 1)}
    /\ \E e \in BOOLEAN, d \in {DirPlugins, DirUp} :
          InitManager(e, d, <<DefaultSecurityConfig, NilAllowlist>>)
    /\ fsys \in { FileSys(TRUE, TRUE, TRUE, l) : l \in EngineListings }

\* where the command goes on when Engine.Convert returned err
AfterConvert(c, err) ==
    IF ~c.watch /\ err # NoErr /\ ~c.jsonMode THEN "exit"
    ELSE IF c.i < c.args THEN "run"
    ELSE IF c.watch THEN "watch"
    ELSE "exit"

\* the command calls Engine.Convert for its next input file or for a change
\* of a watched file; Convert starts with LoadPlugins
Convert ==
    /\ \/ pc = "run" /\ cli.i < cli.args
       \/ pc = "watch" /\ cli.changes < MaxWatchEvents
    /\ DoLoadPlugins
    /\ LET c == IF pc = "run" THEN [cli EXCEPT !.i = @ + 1]
                ELSE [cli EXCEPT !.changes = @ + 1]
           err == IF loadRes'.err = NoErr THEN NoErr
                  ELSE Wrap("failed to load plugins", loadRes'.err)
       IN /\ cli' = [c EXCEPT !.err = err]
          /\ pc' = IF err = NoErr THEN "convertFile" ELSE AfterConvert(c, err)
    /\ UNCHANGED verifyVars

\* convertFile cannot read, parse or write
ConvertFileFails ==
    /\ pc = "convertFile"
    /\ cli' = [cli EXCEPT !.err = Wrap("failed to convert", NewError("could not read input file"))]
    /\ pc' = "deferred"
    /\ UNCHANGED <<verifyVars, mgrVars, callVars, fsys>>

\* convertFile renders a document of one heading
ConvertFileRenders ==
    /\ pc = "convertFile"
    /\ DoApplyTransformers("Heading")
    /\ cli' = [cli EXCEPT !.err = IF applyRes'.err = NoErr THEN NoErr
                                  ELSE Wrap("failed to convert", applyRes'.err)]
    /\ pc' = "deferred"
    /\ UNCHANGED verifyVars

\* the deferred Cleanup of Engine.Convert, and the return to the command
DeferredCleanup ==
    /\ pc = "deferred"
    /\ DoCleanup
    /\ pc' = AfterConvert(cli, cli.err)
    /\ UNCHANGED <<verifyVars, cli>>

\* the signal that ends watch mode
Interrupt ==
    /\ pc = "watch"
    /\ pc' = "exit"
    /\ UNCHANGED <<verifyVars, mgrVars, callVars, fsys, cli>>

NextEngine ==
    Convert \/ ConvertFileFails \/ ConvertFileRenders \/ DeferredCleanup \/ Interrupt

SpecEngine == InitEngine /\ [][NextEngine]_vars

(***************************************************************************)
(* One call of Engine.Convert with a list of input files: LoadPlugins,     *)
(* then convertFile for one file after another, each read, parsed,         *)
(* rendered (BeforeContent, the transformers on the nodes, AfterContent)   *)
(* and written, and the deferred Cleanup.                                  *)
(***************************************************************************)
\* ConversionOptions with that many InputFiles; i is the file at work,
\* read the files convertFile was called for, written the files whose PDF
\* was written
Conversion(files) ==
    [watch |-> FALSE, files |-> files, i |-> 1, read |-> {}, written |-> {},
     err |-> NoErr, calls |-> <<>>]

\* a call Render made on the manager while it rendered the file: what is
\* "before", "walk" or "after"
RenderCall(file, what, err) == [file |-> file, what |-> what, ok |-> err = NoErr]

Called(c, what, err) == [c EXCEPT !.calls = Append(@, RenderCall(c.i, what, err))]

RenderStopsNever(err) == FALSE

\* part_007:78, 90, 97: Render returns the error of the manager
RenderStops(err) == err # NoErr

ConversionError(file, phase, message, cause) ==
    [type |-> "ConversionError", File |-> file, Phase |-> phase, Message |-> message,
     Cause |-> cause]

ConvertLibs == { Lib(TRUE, "ok", q) : q \in {PHi10, PToc100, PGen, PGenFail, PGenAfterFail} }

ConvertListings ==
    {<<>>}
    \cup { <<DirEntry(NameA, "ok", SumA, a)>> : a \in ConvertLibs }
    \cup { <<DirEntry(NameA, "ok", SumA, a), DirEntry(NameB, "ok", SumA, b)>> :
             a \in ConvertLibs, b \in ConvertLibs }

InitConvert ==
    /\ vIn = NoCall /\ vOut = NoCall
    /\ pc = "call"
    /\ cli \in { Conversion(n) : n \in 1..MaxArgs }
    /\ InitManager(TRUE, DirPlugins, <<DefaultSecurityConfig, NilAllowlist>>)
    /\ fsys \in { FileSys(TRUE, TRUE, TRUE, l) : l \in ConvertListings }

\* engine.go:59-62
EngineConvert ==
    /\ pc = "call"
    /\ DoLoadPlugins
    /\ IF loadRes'.err = NoErr
       THEN pc' = "file" /\ cli' = cli
       ELSE /\ pc' = "returned"
            /\ cli' = [cli EXCEPT !.err = Wrap("failed to load plugins", loadRes'.err)]
    /\ UNCHANGED verifyVars

ConvertReturnsNever(err) == FALSE

\* engine.go:72-75: the loop returns at the first file that fails
ConvertReturns(err) == err # NoErr

\* convertFile returned err for the file at work: the return of Convert,
\* or the next file of the loop
AfterFile(c, err) ==
    IF ConvertReturns(err)
    THEN [pc |-> "deferred",
          cli |-> [c EXCEPT !.err = Wrap(<<"failed to convert %s", c.i>>, err)]]
    ELSE IF c.i < c.files
    THEN [pc |-> "file", cli |-> [c EXCEPT !.i = @ + 1]]
    ELSE [pc |-> "deferred", cli |-> c]

\* convertFile failed in Render with the error err
RenderFailed(c, err) ==
    AfterFile(c, ConversionError(c.i, "PDF rendering", "could not render PDF", err))

\* engine.go:85-103: the file is read and parsed, or one of the two fails
ConvertFileReads ==
    /\ pc = "file"
    /\ \E ok \in BOOLEAN :
          LET c == [cli EXCEPT !.read = @ \cup {cli.i}]
              n == IF ok THEN [pc |-> "before", cli |-> c]
                   ELSE AfterFile(c, ConversionError(c.i, "file reading",
                                                     "could not read input file",
                                                     NewError("read")))
          IN pc' = n.pc /\ cli' = n.cli
    /\ UNCHANGED <<verifyVars, mgrVars, callVars, fsys>>

\* Render, part_007:75-87
RenderBefore ==
    /\ pc = "before"
    /\ DoGenerateContent(BeforeContent)
    /\ LET c == Called(cli, "before", genRes'.err)
           n == IF ~RenderStops(genRes'.err) THEN [pc |-> "walk", cli |-> c]
                ELSE RenderFailed(c, Wrap("failed to generate before content",
                                          genRes'.err))
       IN pc' = n.pc /\ cli' = n.cli
    /\ UNCHANGED verifyVars

\* Render, part_007:89-92 with walkAST and applyTransformers, on a document
\* of one node
RenderWalk ==
    /\ pc = "walk"
    /\ \E kind \in NodeKinds : DoApplyTransformers(kind)
    /\ LET c == Called(cli, "walk", applyRes'.err)
           n == IF ~RenderStops(applyRes'.err) THEN [pc |-> "after", cli |-> c]
                ELSE RenderFailed(c, applyRes'.err)
       IN pc' = n.pc /\ cli' = n.cli
    /\ UNCHANGED verifyVars

\* Render, part_007:94-106
RenderAfter ==
    /\ pc = "after"
    /\ DoGenerateContent(AfterContent)
    /\ LET c == Called(cli, "after", genRes'.err)
           n == IF ~RenderStops(genRes'.err) THEN [pc |-> "write", cli |-> c]
                ELSE RenderFailed(c, Wrap("failed to generate after content",
                                          genRes'.err))
       IN pc' = n.pc /\ cli' = n.cli
    /\ UNCHANGED verifyVars

\* engine.go:115-127: the PDF is written, or os.WriteFile fails
ConvertFileWrites ==
    /\ pc = "write"
    /\ \E ok \in BOOLEAN :
          LET n == IF ok THEN AfterFile([cli EXCEPT !.written = @ \cup {cli.i}], NoErr)
                   ELSE AfterFile(cli, ConversionError(cli.i, "file writing",
                                                       "could not write PDF file",
                                                       NewError("write")))
          IN pc' = n.pc /\ cli' = n.cli
    /\ UNCHANGED <<verifyVars, mgrVars, callVars, fsys>>

\* engine.go:64-68
ConvertDeferred ==
    /\ pc = "deferred"
    /\ DoCleanup
    /\ pc' = "returned"
    /\ UNCHANGED <<verifyVars, cli>>

NextConvert ==
    EngineConvert \/ ConvertFileReads \/ RenderBefore \/ RenderWalk \/ RenderAfter
    \/ ConvertFileWrites \/ ConvertDeferred

SpecConvert == InitConvert /\ [][NextConvert]_vars

(***************************************************************************)
(* A manager that is loaded once for every call of Engine.Convert, and a   *)
(* caller that asks it for its security events and writes into the slice   *)
(* it was handed.  alias tells whether that slice shares its elements with *)
(* the log.                                                                *)
(***************************************************************************)
GetEventsAliased(log) == [alias |-> TRUE, list |-> log]

\* security.go:384-391: a new slice into which the events are copied
GetEvents(log) == [alias |-> FALSE, list |-> log]

InitLog ==
    /\ vIn = NoCall /\ vOut = NoCall
    /\ pc = "new"
    /\ cli = NoCommand
    /\ \E policy \in ManagerPolicies : InitManager(TRUE, DirPlugins, policy)
    /\ fsys \in { FileSys(TRUE, TRUE, TRUE, l) : l \in ConvertListings }

\* engine.go:59: every call of Engine.Convert loads the plugins
LoadPluginsAgain ==
    /\ pc \in {"new", "loaded"}
    /\ pass < MaxArgs
    /\ DoLoadPlugins
    /\ pc' = "loaded"
    /\ UNCHANGED <<verifyVars, cli>>

\* Manager.GetSecurityEvents; the manager of NewManager has a logger
GetSecurityEvents ==
    /\ ~vOut.done
    /\ LET r == GetEvents(events) IN
       vOut' = [done |-> TRUE, changed |-> FALSE, alias |-> r.alias, list |-> r.list]
    /\ UNCHANGED <<vIn, mgrVars, callVars, fsys, pc, cli>>

\* the caller overwrites an element of the slice it was handed
ChangeSnapshot ==
    /\ vOut.done /\ ~vOut.changed
    /\ \E i \in 1..Len(vOut.list) :
          /\ vOut' = [vOut EXCEPT !.changed = TRUE, !.list[i].Success = ~@]
          /\ events' = IF vOut.alias THEN [events EXCEPT ![i].Success = ~@] ELSE events
    /\ UNCHANGED <<vIn, enabled, pluginDir, securityConfig, allowlist, plugins,
                   transformers, generators, callVars, fsys, pc, cli>>

NextLog == LoadPluginsAgain \/ GetSecurityEvents \/ ChangeSnapshot \/ Cleanup

SpecLog == InitLog /\ [][NextLog]_vars

(***************************************************************************)
(* PDFRenderer.walkAST on a document: a root node and the nodes under it.  *)
(* applyTransformers walks the tree with ast.Walk and calls the manager    *)
(* on every node the walk enters; a node for which the manager returned    *)
(* another node is replaced in its parent while the walk stands on it.     *)
(* Then the tree is walked a second time and rendered.                     *)
(* ast.Walk steps from a child to the next with NextSibling of the child   *)
(* it has just left, and ReplaceChild (InsertBefore, then RemoveChild)     *)
(* takes the replaced node out of the tree, its parent and sibling links   *)
(* set to nil.                                                             *)
(***************************************************************************)
\* a node of the parsed document is named by its place in it: the root,
\* and the k-th node under the root
RootId == <<>>

ChildId(k) == <<k>>

\* the node a transformer made, which was not in the parsed document
NewNodeId == <<0>>

KindDocument == "Document"

\* a node of the tree: the id tells which node of the parsed document it is
TreeNode(id, kind) == [id |-> id, kind |-> kind]

\* the documents the parser may hand over: the nodes under the root
RECURSIVE Documents(_)
Documents(n) ==
    IF n = 0 THEN {<<>>}
    ELSE Documents(n - 1)
         \cup { Append(d, TreeNode(ChildId(Len(d) + 1), kind)) :
                  d \in { e \in Documents(n - 1) : Len(e) = n - 1 }, kind \in NodeKinds }

\* walkAST at work: children the nodes under the root, at the position of
\* the child the walk enters next (0: none), calls the ids of the nodes
\* applyTransformers was called for, rendered the ids of the nodes rendered
Walk(children) ==
    [watch |-> FALSE, children |-> children, at |-> 0, calls |-> <<>>,
     rendered |-> <<>>, err |-> NoErr]

\* part_007:198, transformedNode != n: some transformer that ran on the
\* node returned a node it made
IsReplacement(list, res) ==
    \E k \in 1..Len(list) :
        /\ list[k].p.out # "same"
        /\ \E j \in (res.from + 1)..Len(res.trace) :
              res.trace[j].id = list[k].id /\ res.trace[j].ok

\* ast.Node.ReplaceChild as part_007:201 calls it: the node at position
\* at gives way to the new node
ReplaceChild(children, at, kind) ==
    [children EXCEPT ![at] = TreeNode(NewNodeId, kind)]

\* the child ast.Walk enters after the child at position at: NextSibling
\* of the node it has left, nil for a node that was taken out of the tree
NextSibling(children, at, removed) ==
    IF removed \/ at >= Len(children) THEN 0 ELSE at + 1

\* FirstChild of the root
FirstChild(children) == IF children = <<>> THEN 0 ELSE 1

WalkLibs == { Lib(TRUE, "ok", q) : q \in {PToc100, PToc10, PMid50, PHi10} }

WalkListings ==
    {<<>>}
    \cup { <<DirEntry(NameA, "ok", SumA, a)>> : a \in WalkLibs }
    \cup { <<DirEntry(NameA, "ok", SumA, a), DirEntry(NameB, "ok", SumA, b)>> :
             a \in WalkLibs, b \in WalkLibs }

InitWalk ==
    /\ vIn = NoCall /\ vOut = NoCall
    /\ pc = "call"
    /\ cli \in { Walk(d) : d \in Documents(MaxNodes) }
    /\ InitManager(TRUE, DirPlugins, <<DefaultSecurityConfig, NilAllowlist>>)
    /\ fsys \in { FileSys(TRUE, TRUE, TRUE, l) : l \in WalkListings }

\* engine.go:59-62, and the file is read and parsed
WalkLoads ==
    /\ pc = "call"
    /\ DoLoadPlugins
    /\ pc' = IF loadRes'.err = NoErr THEN "root" ELSE "returned"
    /\ cli' = cli
    /\ UNCHANGED verifyVars

\* part_007:182-212, the callback on the root: n.Parent() is nil, so a
\* node the manager returned for it is dropped
TransformRoot ==
    /\ pc = "root"
    /\ DoApplyTransformers(KindDocument)
    /\ LET c == [cli EXCEPT !.calls = Append(@, RootId)] IN
       IF applyRes'.err # NoErr
       THEN pc' = "returned" /\ cli' = [c EXCEPT !.err = applyRes'.err]
       ELSE /\ cli' = [c EXCEPT !.at = FirstChild(c.children)]
            /\ pc' = IF FirstChild(c.children) = 0 THEN "render" ELSE "child"
    /\ UNCHANGED verifyVars

\* part_007:182-212, the callback on the child the walk enters
TransformChild ==
    /\ pc = "child"
    /\ LET n == cli.children[cli.at] IN
          /\ DoApplyTransformers(n.kind)
          /\ LET c == [cli EXCEPT !.calls = Append(@, n.id)]
                 replaced == IsReplacement(transformers,
                                           [from |-> applyRes'.from, trace |-> trace'])
                 next == NextSibling(c.children, c.at, replaced)
             IN IF applyRes'.err # NoErr
                THEN pc' = "returned" /\ cli' = [c EXCEPT !.err = applyRes'.err]
                ELSE /\ cli' = [c EXCEPT
                                  !.children = IF replaced
                                               THEN ReplaceChild(@, c.at, applyRes'.node.kind)
                                               ELSE @,
                                  !.at = next]
                     /\ pc' = IF next = 0 THEN "render" ELSE "child"
    /\ UNCHANGED verifyVars

\* part_007:146-177: the second walk renders the root and every node that
\* is under it now
RenderNodes ==
    /\ pc = "render"
    /\ cli' = [cli EXCEPT
                 !.rendered = <<RootId>> \o [k \in 1..Len(cli.children) |-> cli.children[k].id]]
    /\ pc' = "returned"
    /\ UNCHANGED <<verifyVars, mgrVars, callVars, fsys>>

NextWalk == WalkLoads \/ TransformRoot \/ TransformChild \/ RenderNodes

SpecWalk == InitWalk /\ [][NextWalk]_vars

(***************************************************************************)
(* Manager.SetSecurityConfig on a manager as one of the constructors left  *)
(* it, and the load pass that follows.  The call is given by the config    *)
(* handed over (nil or a policy with its AllowlistPath) and by the file    *)
(* the file system has at that path.                                       *)
(***************************************************************************)
\* manager.go:76-95: from the policy and the allowlist of the manager to
\* those the call leaves, and the error it returns
SetSecurityConfigResult(curAllowlist, isNil, config, path, file) ==
    LET c == IF isNil THEN DefaultSecurityConfig ELSE config
        r == LoadAllowlistFromFile(path, file)
    IN IF path # <<>>
       THEN IF r.err # NoErr
            THEN [config |-> c, allowlist |-> curAllowlist,
                  err |-> Wrap("failed to load plugin allowlist", r.err)]
            ELSE [config |-> c, allowlist |-> r.allowlist, err |-> NoErr]
       ELSE [config |-> c, allowlist |-> NewPluginAllowlist, err |-> NoErr]

\* the file at the AllowlistPath: an entry for a.so, a line without colon,
\* no file, a file that cannot be opened
SetConfigFiles ==
    { File(TRUE, TRUE, TRUE, <<EntryLine(NameA, SumA, FALSE)>>),
      File(TRUE, TRUE, TRUE, <<OtherLine("nocolon", <<"a", ".", "s", "o">>)>>),
      File(FALSE, TRUE, TRUE, <<>>),
      File(TRUE, FALSE, TRUE, <<>>) }

SetConfigCalls ==
    {[nil |-> TRUE, config |-> DefaultSecurityConfig, path |-> <<>>,
      file |-> File(FALSE, TRUE, TRUE, <<>>)]}
    \cup { [nil |-> FALSE, config |-> c, path |-> <<>>, file |-> File(FALSE, TRUE, TRUE, <<>>)] :
             c \in SecurityConfigs }
    \cup { [nil |-> FALSE, config |-> c, path |-> AllowlistPath, file |-> f] :
             c \in SecurityConfigs, f \in SetConfigFiles }

SetConfigListings ==
    { <<>>,
      <<DirEntry(NameA, "ok", SumA, Lib(TRUE, "ok", PToc100))>>,
      <<DirEntry(NameA, "ok", Sum1, Lib(TRUE, "ok", PToc100))>> }

InitSetConfig ==
    /\ vIn \in SetConfigCalls
    /\ vOut = NoCall
    /\ pc = "new"
    /\ cli = NoCommand
    /\ \E policy \in ManagerPolicies : InitManager(TRUE, DirPlugins, policy)
    /\ fsys \in { FileSys(TRUE, TRUE, TRUE, l) : l \in SetConfigListings }

SetSecurityConfig ==
    /\ pc = "new"
    /\ LET r == SetSecurityConfigResult(allowlist, vIn.nil, vIn.config, vIn.path, vIn.file) IN
          /\ securityConfig' = r.config
          /\ allowlist' = r.allowlist
          /\ vOut' = [done |-> TRUE, err |-> r.err,
                      before |-> [config |-> securityConfig, allowlist |-> allowlist]]
    /\ pc' = "configured"
    /\ UNCHANGED <<vIn, enabled, pluginDir, plugins, transformers, generators, events,
                   callVars, fsys, cli>>

\* the caller goes on with the manager, whatever SetSecurityConfig returned
LoadConfigured ==
    /\ pc = "configured"
    /\ DoLoadPlugins
    /\ pc' = "loaded"
    /\ UNCHANGED <<verifyVars, cli>>

NextSetConfig == SetSecurityConfig \/ LoadConfigured

SpecSetConfig == InitSetConfig /\ [][NextSetConfig]_vars

(***************************************************************************)
(* Manager.loadPlugin on one file while another process may write the      *)
(* file.  loadPlugin reads the file twice, by its path: the checksum of    *)
(* VerifyPlugin opens and reads it (security.go:215-228), and plugin.Open  *)
(* opens it again (manager.go:194).  The content of the file is what its   *)
(* directory entry says: the checksum of the bytes and the library they    *)
(* make.                                                                   *)
(***************************************************************************)
SumA1 == [i \in 1..SumLen |-> IF i = 1 THEN "a" ELSE "1"]
Sum1A == [i \in 1..SumLen |-> IF i = 1 THEN "1" ELSE "a"]

\* the contents the file may have: their checksums differ
FileContents ==
    { DirEntry(NameA, "ok", SumA, Lib(TRUE, "ok", PToc100)),
      DirEntry(NameA, "ok", Sum1, Lib(TRUE, "ok", PHi10)),
      DirEntry(NameA, "ok", SumA1, Lib(TRUE, "ok", PGen)),
      DirEntry(NameA, "ok", Sum1A, Lib(FALSE, "missing", NoPlugin)) }

\* loadPlugin at work on the file: seen is the content CalculateFileChecksum
\* read, opened the content plugin.Open read, replaced tells whether the
\* other process has written the file
FileLoad ==
    [watch |-> FALSE, replaced |-> FALSE, seen |-> <<>>, opened |-> <<>>]

InitReplace ==
    /\ vIn = NoCall /\ vOut = NoCall
    /\ pc = "checksum"
    /\ cli = FileLoad
    /\ \E policy \in ManagerPolicies : InitManager(TRUE, Join(CwdPath, <<"p">>), policy)
    /\ fsys \in { FileSys(TRUE, TRUE, TRUE, <<c>>) : c \in FileContents }

\* security.go:207-231 as VerifyPlugin calls it at manager.go:177: the
\* file is opened and read to its end
ChecksumReads ==
    /\ pc = "checksum"
    /\ cli' = [cli EXCEPT !.seen = <<fsys.entries[1]>>]
    /\ pc' = "open"
    /\ UNCHANGED <<verifyVars, mgrVars, callVars, fsys>>

\* another process puts other bytes under the name of the file
ReplaceFile ==
    /\ pc \in {"checksum", "open"}
    /\ ~cli.replaced
    /\ \E c \in FileContents \ {fsys.entries[1]} :
          fsys' = [fsys EXCEPT !.entries = <<c>>]
    /\ cli' = [cli EXCEPT !.replaced = TRUE]
    /\ UNCHANGED <<verifyVars, mgrVars, callVars, pc>>

\* manager.go:177-267 from the verification of the checksum on: the
\* checksum is that of the content read before, plugin.Open reads the file
\* as it is now
OpenLoads ==
    /\ pc = "open"
    /\ LET seen == cli.seen[1]
           r == loadPlugin(LoadState, Join(pluginDir, NameA),
                           [io |-> seen.io, sum |-> seen.sum, getwd |-> fsys.getwd],
                           fsys.entries[1].lib, <<pass + 1, 1>>, securityConfig, allowlist)
       IN /\ plugins' = r.ms.plugins
          /\ transformers' = r.ms.transformers
          /\ generators' = r.ms.generators
          /\ events' = r.ms.events
          /\ trace' = r.ms.trace
          /\ loadRes' = [done |-> TRUE, err |-> r.err, from |-> Len(trace),
                         before |-> LoadState, dir |-> pluginDir]
          /\ cli' = [cli EXCEPT !.opened =
                       IF \E i \in 1..Len(r.ms.trace) : r.ms.trace[i].op = "open"
                       THEN <<fsys.entries[1]>> ELSE <<>>]
    /\ pass' = pass + 1
    /\ pc' = "loaded"
    /\ UNCHANGED <<verifyVars, enabled, pluginDir, securityConfig, allowlist, fsys,
                   cleanups, applies, applyRes, cleanupRes, generates, genRes>>

NextReplace == ChecksumReads \/ ReplaceFile \/ OpenLoads \/ ApplyTransformers

SpecReplace == InitReplace /\ [][NextReplace]_vars

(***************************************************************************)
(* Properties of the manager.                                              *)
(***************************************************************************)
\* the positions of the trace written by the call that started at from
Since(from) == (from + 1)..Len(trace)

LoadSteps == {"open", "lookup", "new", "init", "register"}

\* C1: a candidate is opened, instantiated, initialised and registered only
\* after VerifyPlugin succeeded for that candidate in the same pass; a
\* candidate whose verification failed is never opened, instantiated,
\* initialised or registered.
Thm_C1 ==
    /\ \A i \in 1..Len(trace) :
         trace[i].op \in LoadSteps =>
            \E j \in 1..(i - 1) :
               trace[j].op = "verify" /\ trace[j].id = trace[i].id /\ trace[j].ok
    /\ \A j \in 1..Len(trace) :
         (trace[j].op = "verify" /\ ~trace[j].ok) =>
            /\ \A i \in 1..Len(trace) :
                  trace[i].id = trace[j].id => trace[i].op = "verify"
            /\ \A n \in DOMAIN plugins : plugins[n].id # trace[j].id
            /\ \A k \in 1..Len(transformers) : transformers[k].id # trace[j].id
            /\ \A ph \in DOMAIN generators :
                  \A k \in 1..Len(generators[ph]) : generators[ph][k].id # trace[j].id

\* C1 witness: in one pass the allowlist refused a candidate and a later
\* candidate was verified and registered
Wit_C1 ==
    /\ loadRes.done
    /\ \E j \in 1..Len(trace), i \in 1..Len(trace) :
          /\ j < i
          /\ trace[j].op = "verify" /\ ~trace[j].ok
          /\ trace[i].op = "register"
    /\ \E k \in 1..Len(events) :
          events[k].Error.text = "plugin not in allowlist"

\* the number of Cleanup calls the last Cleanup made on instance id
CleanupCallsOn(id) ==
    Cardinality({ i \in Since(cleanupRes.from) :
                    trace[i].op = "cleanup" /\ trace[i].id = id })

\* C6: Cleanup calls Cleanup once on every instance of the registry, also
\* after one of them failed; it returns nil iff none failed, and otherwise
\* one error that holds the name and the error of every failing instance.
Thm_C6 ==
    cleanupRes.done =>
        /\ \A n \in DOMAIN plugins : CleanupCallsOn(plugins[n].id) = 1
        /\ Cardinality({ i \in Since(cleanupRes.from) : trace[i].op = "cleanup" })
             = Cardinality(DOMAIN plugins)
        /\ (cleanupRes.err = NoErr) <=> (\A n \in DOMAIN plugins : plugins[n].p.cleanupOk)
        /\ cleanupRes.err # NoErr =>
              /\ cleanupRes.err.Msg = "plugin cleanup errors"
              /\ \A n \in DOMAIN plugins :
                    ~plugins[n].p.cleanupOk =>
                       \E k \in 1..Len(cleanupRes.err.items) :
                          /\ cleanupRes.err.items[k].name = n
                          /\ cleanupRes.err.items[k].err = NewError(<<"cleanup", n>>)

\* C6 witness: two instances failed and another was cleaned up after a failure
Wit_C6 ==
    /\ cleanupRes.done
    /\ cleanupRes.err # NoErr
    /\ Len(cleanupRes.err.items) = 2
    /\ \E i \in Since(cleanupRes.from), j \in Since(cleanupRes.from) :
          i < j /\ ~trace[i].ok /\ trace[j].ok

\* the instances that were registered: init succeeded and the instance was
\* stored in the registry
RegisteredIds == { trace[i].id : i \in { j \in 1..Len(trace) : trace[j].op = "register" } }

\* C7: once Cleanup has returned, every instance that was registered during
\* the load pass has had exactly one Cleanup call, also an instance that
\* shares its name with another one of the pass.
Orig_C7 ==
    (pc = "done" /\ cleanupRes.done) =>
        \A id \in RegisteredIds : CleanupCallsOn(id) = 1

\* the transform calls of the last ApplyTransformers call, in order
IsTransform(step) == step.op = "transform"

ApplySteps ==
    SelectSeq([k \in 1..(Len(trace) - applyRes.from) |-> trace[applyRes.from + k]],
              IsTransform)

\* the position in the transformer list of the instance with this id
IndexOfId(id) ==
    CHOOSE k \in 1..Len(transformers) : transformers[k].id = id

\* C9: when a transformer fails, ApplyTransformers calls no later
\* transformer, and returns an error that names the failing transformer and
\* wraps the error it returned.
Thm_C9 ==
    applyRes.done =>
        /\ \A k \in 1..Len(ApplySteps) :
              ~ApplySteps[k].ok =>
                 /\ k = Len(ApplySteps)
                 /\ applyRes.err.type = "wrapped"
                 /\ applyRes.err.Msg =
                      <<"transformer %s failed", transformers[IndexOfId(ApplySteps[k].id)].p.name>>
                 /\ applyRes.err.Cause =
                      NewError(<<"transform", transformers[IndexOfId(ApplySteps[k].id)].p.name>>)
        /\ (applyRes.err = NoErr) <=> (\A k \in 1..Len(ApplySteps) : ApplySteps[k].ok)

\* C9 witness: a transformer failed while a later transformer of the list
\* supports the node
Wit_C9 ==
    /\ applyRes.done
    /\ applyRes.err # NoErr
    /\ \E k \in 1..Len(transformers) :
          /\ transformers[k].id = ApplySteps[Len(ApplySteps)].id
          /\ \E l \in (k + 1)..Len(transformers) :
                transformers[l].p.supported = {}

Priorities(list) == [k \in 1..Len(list) |-> list[k].p.priority]

Occurrences(list, x) == Cardinality({ k \in 1..Len(list) : list[k] = x })

IsPermutation(a, b) ==
    /\ Len(a) = Len(b)
    /\ \A k \in 1..Len(a) : Occurrences(a, a[k]) = Occurrences(b, a[k])

\* the transformers the last pass appended, in discovery order
RECURSIVE AppendedFrom(_)
AppendedFrom(i) ==
    IF i > Len(trace) THEN <<>>
    ELSE IF trace[i].op = "register"
            /\ "transformer" \in fsys.entries[trace[i].id[2]].lib.plugin.caps
         THEN <<Instance(trace[i].id, fsys.entries[trace[i].id[2]].lib.plugin)>>
              \o AppendedFrom(i + 1)
         ELSE AppendedFrom(i + 1)

Discovered == AppendedFrom(loadRes.from + 1)

Orig_C8 ==
    /\ pass <= 1
    /\ cleanups <= 1
    /\ (pc = "exit" /\ loadRes.done /\ loadRes.err = NoErr) => cleanups = 1

\* C11: after a LoadPlugins call that returned nil, two transformers of
\* equal priority stand in the list in the order of their discovery.
Orig_C11 ==
    (loadRes.done /\ loadRes.err = NoErr) =>
        LET d == loadRes.before.transformers \o Discovered IN
        \A i \in 1..Len(d), j \in 1..Len(d) :
           (i < j /\ d[i].p.priority = d[j].p.priority) =>
              IndexOfId(d[i].id) < IndexOfId(d[j].id)

\* the transformer a step of the last ApplyTransformers call was made on
StepInst(k) == transformers[IndexOfId(ApplySteps[k].id)]

\* the steps of the last call made on transformers before position p
StepsBefore(p) == { k \in 1..Len(ApplySteps) : IndexOfId(ApplySteps[k].id) < p }

\* C12: ApplyTransformers never calls Transform on a transformer whose
\* SupportedNodes is non-empty and lacks the kind of the node handed over,
\* and a transformer with empty SupportedNodes that the loop reaches (no
\* earlier transformer failed) is called whatever the kind of the node.
Thm_C12 ==
    applyRes.done =>
        /\ \A k \in 1..Len(ApplySteps) :
              \/ StepInst(k).p.supported = {}
              \/ ApplySteps[k].kind \in StepInst(k).p.supported
        /\ \A p \in 1..Len(transformers) :
              (/\ transformers[p].p.supported = {}
               /\ \A k \in StepsBefore(p) : ApplySteps[k].ok) =>
                 \E k \in 1..Len(ApplySteps) : ApplySteps[k].id = transformers[p].id

\* C12 witness: on a Paragraph a transformer for Heading only was passed
\* over and a later transformer for every kind was called
Wit_C12 ==
    /\ applyRes.done
    /\ applyRes.in.kind = "Paragraph"
    /\ \E p \in 1..Len(transformers), k \in 1..Len(ApplySteps) :
          /\ transformers[p].p.supported = {"Heading"}
          /\ \A l \in 1..Len(ApplySteps) : ApplySteps[l].id # transformers[p].id
          /\ IndexOfId(ApplySteps[k].id) > p
          /\ ApplySteps[k].kind = "Paragraph"
          /\ StepInst(k).p.supported = {}

\* the kind of the node a Transform call that succeeded returned
OutKind(k) ==
    IF StepInst(k).p.out = "same" THEN ApplySteps[k].kind ELSE StepInst(k).p.out

\* the kind of the working node when the loop is at position p
KindAt(p) ==
    IF StepsBefore(p) = {} THEN applyRes.in.kind
    ELSE OutKind(CHOOSE k \in StepsBefore(p) : \A l \in StepsBefore(p) : l <= k)

\* C13: when no transformer failed, the transformers called are those of
\* the list that support the working node, in list order and so in
\* ascending priority; the first receives the input node, every other the
\* node the one before returned, and the call returns the last node.
Thm_C13 ==
    (applyRes.done /\ applyRes.err = NoErr) =>
        /\ \A k \in 1..Len(ApplySteps) : ApplySteps[k].ok
        /\ \A k \in 1..Len(ApplySteps), l \in 1..Len(ApplySteps) :
              k < l => /\ IndexOfId(ApplySteps[k].id) < IndexOfId(ApplySteps[l].id)
                       /\ StepInst(k).p.priority <= StepInst(l).p.priority
        /\ \A p \in 1..Len(transformers) :
              (\E k \in 1..Len(ApplySteps) : ApplySteps[k].id = transformers[p].id)
                 <=> (\/ transformers[p].p.supported = {}
                      \/ KindAt(p) \in transformers[p].p.supported)
        /\ \A k \in 1..Len(ApplySteps) :
              ApplySteps[k].kind = KindAt(IndexOfId(ApplySteps[k].id))
        /\ applyRes.node.kind = KindAt(Len(transformers) + 1)
        /\ applyRes.node.by = [k \in 1..Len(ApplySteps) |-> ApplySteps[k].id]

\* C13 witness: two transformers were called, the second on a node of the
\* kind the first one made
Wit_C13 ==
    /\ applyRes.done /\ applyRes.err = NoErr
    /\ Len(ApplySteps) >= 2
    /\ applyRes.in.kind = "Paragraph"
    /\ ApplySteps[2].kind = "Heading"
    /\ StepInst(2).p.supported = {"Heading"}

\* the Generate calls of the last GenerateContent call, in order
IsGenerate(step) == step.op = "generate"

GenerateSteps ==
    SelectSeq([k \in 1..(Len(trace) - genRes.from) |-> trace[genRes.from + k]],
              IsGenerate)

\* the generators registered under a phase, in discovery order
RECURSIVE RegisteredFor(_, _)
RegisteredFor(phase, i) ==
    IF i > Len(trace) THEN <<>>
    ELSE LET q == fsys.entries[trace[i].id[2]].lib.plugin IN
         IF trace[i].op = "register" /\ "generator" \in q.caps /\ q.phase = phase
         THEN <<Instance(trace[i].id, q)>> \o RegisteredFor(phase, i + 1)
         ELSE RegisteredFor(phase, i + 1)

\* the elements of the first n generators of a list, in order
RECURSIVE ElementsOf(_, _)
ElementsOf(list, n) ==
    IF n = 0 THEN <<>>
    ELSE ElementsOf(list, n - 1)
         \o <<[gen |-> list[n].id, n |-> 1], [gen |-> list[n].id, n |-> 2]>>

\* C14: GenerateContent(phase) calls the generators registered under that
\* phase and no other, in discovery order, and returns their elements in
\* that order; at the first generator that fails it calls no later one and
\* returns the elements it has so far with an error that names the
\* generator and wraps its error.
Thm_C14 ==
    genRes.done =>
        LET exp == RegisteredFor(genRes.phase, 1)
            n == Len(GenerateSteps)
        IN /\ n <= Len(exp)
           /\ \A k \in 1..n : GenerateSteps[k].id = exp[k].id
           /\ \A k \in 1..n : GenerateSteps[k].ok <=> exp[k].p.generateOk
           /\ \A k \in 1..n :
                 ~GenerateSteps[k].ok =>
                    /\ k = n
                    /\ genRes.elements = ElementsOf(exp, n - 1)
                    /\ genRes.err.type = "wrapped"
                    /\ genRes.err.Msg = <<"generator %s failed", exp[k].p.name>>
                    /\ genRes.err.Cause = NewError(<<"generate", exp[k].p.name>>)
           /\ (\A k \in 1..n : GenerateSteps[k].ok) =>
                 /\ n = Len(exp)
                 /\ genRes.err = NoErr
                 /\ genRes.elements = ElementsOf(exp, n)

\* C14 witness: the second generator of the phase failed, a third one is
\* registered under the phase, and the elements of the first were returned
Wit_C14 ==
    /\ genRes.done
    /\ genRes.err # NoErr
    /\ Len(GenerateSteps) = 2
    /\ Len(RegisteredFor(genRes.phase, 1)) = 3
    /\ Len(genRes.elements) = 2

\* the last LoadPlugins call got as far as the loop over the directory
PassRan == loadRes.done /\ enabled /\ loadRes.err = NoErr /\ fsys.exists

\* the positions of the directory listing that hold a candidate, a name
\* ending in .so
CandidateAt(k) ==
    LET n == fsys.entries[k].name IN
    Len(n) >= 3 /\ SubSeq(n, Len(n) - 2, Len(n)) = <<".", "s", "o">>

Candidates == { k \in 1..Len(fsys.entries) : CandidateAt(k) }

\* the steps the last pass made on the candidate at position k
PassSteps(k) ==
    { i \in Since(loadRes.from) :
        trace[i].id = <<pass, k>> /\ trace[i].op \in LoadSteps \cup {"verify"} }

HasStep(k, op) == \E i \in PassSteps(k) : trace[i].op = op

StepFailed(k, op) == \E i \in PassSteps(k) : trace[i].op = op /\ ~trace[i].ok

FailedAt(k) ==
    StepFailed(k, "verify") \/ StepFailed(k, "open") \/ StepFailed(k, "lookup")
    \/ StepFailed(k, "init")

\* C15: a LoadPlugins call that reaches the loop returns nil whatever
\* candidates fail; every candidate of the directory is verified, also
\* after a candidate that failed at verification, open, lookup or init,
\* and a candidate that passes its own steps is registered.
Thm_C15 ==
    PassRan =>
        /\ loadRes.err = NoErr
        /\ \A k \in Candidates : HasStep(k, "verify")
        /\ \A k \in Candidates, l \in Candidates :
              k < l => \A i \in PassSteps(k), j \in PassSteps(l) : i < j
        /\ \A k \in Candidates :
              (/\ ~StepFailed(k, "verify")
               /\ fsys.entries[k].lib.open
               /\ fsys.entries[k].lib.sym = "ok"
               /\ fsys.entries[k].lib.plugin.initOk) => HasStep(k, "register")

\* C15 witness: a candidate failed at verification, a later one at open,
\* lookup or init, and a candidate after both was registered
Wit_C15 ==
    /\ PassRan
    /\ \E k \in Candidates, l \in Candidates, m \in Candidates :
          /\ k < l /\ l < m
          /\ StepFailed(k, "verify")
          /\ StepFailed(l, "open") \/ StepFailed(l, "lookup") \/ StepFailed(l, "init")
          /\ HasStep(m, "register")

\* every instance the manager holds
Held ==
    { plugins[n] : n \in DOMAIN plugins }
    \cup { transformers[k] : k \in 1..Len(transformers) }
    \cup UNION { { generators[ph][k] : k \in 1..Len(generators[ph]) } :
                   ph \in DOMAIN generators }

\* C16: an instance whose Init failed, or whose candidate failed at
\* verification, open or lookup, is in none of plugins, transformers and
\* generators: every instance held passed the four steps.
Thm_C16 ==
    /\ \A inst \in Held :
          \A op \in {"verify", "open", "lookup", "init"} :
             \E i \in 1..Len(trace) :
                trace[i].id = inst.id /\ trace[i].op = op /\ trace[i].ok
    /\ \A i \in 1..Len(trace) :
          (trace[i].op \in {"verify", "open", "lookup", "init"} /\ ~trace[i].ok) =>
             \A inst \in Held : inst.id # trace[i].id

\* C16 witness: the Init of a plugin that is a transformer and a generator
\* failed, a library had no usable NewPlugin, and another plugin is held
Wit_C16 ==
    /\ PassRan
    /\ \E k \in Candidates :
          /\ StepFailed(k, "init")
          /\ fsys.entries[k].lib.plugin.caps = {"transformer", "generator"}
    /\ \E k \in Candidates : StepFailed(k, "lookup")
    /\ Held # {}

\* the candidates in directory order
RECURSIVE CandidatesFrom(_)
CandidatesFrom(k) ==
    IF k > Len(fsys.entries) THEN <<>>
    ELSE IF CandidateAt(k) THEN <<k>> \o CandidatesFrom(k + 1)
    ELSE CandidatesFrom(k + 1)

\* C17: a LoadPlugins call appends one event to the log for every
\* candidate, in the order of the candidates, with the path of the
\* candidate, and marked successful exactly when the candidate was
\* registered; a call that does not reach the loop appends nothing.
Thm_C17 ==
    loadRes.done =>
        LET old == loadRes.before.events
            c == IF PassRan THEN CandidatesFrom(1) ELSE <<>>
        IN /\ Len(events) = Len(old) + Len(c)
           /\ SubSeq(events, 1, Len(old)) = old
           /\ \A n \in 1..Len(c) :
                 LET e == events[Len(old) + n] IN
                 /\ Base(e.PluginPath) = fsys.entries[c[n]].name
                 /\ SubSeq(e.PluginPath, 1, Len(e.PluginPath) - 1) = pluginDir
                 /\ e.Success <=> HasStep(c[n], "register")

\* C17 witness: three candidates, one failed at verification, one at init,
\* one was registered, and the log has their three events
Wit_C17 ==
    /\ PassRan
    /\ Len(events) = 3
    /\ \E k \in Candidates : StepFailed(k, "verify")
    /\ \E k \in Candidates : StepFailed(k, "init") \/ StepFailed(k, "open")
    /\ \E k \in Candidates : HasStep(k, "register")

\* err, or an error that err wraps, is target
RECURSIVE HasCause(_, _)
HasCause(err, target) ==
    \/ err = target
    \/ /\ "Cause" \in DOMAIN err
       /\ HasCause(err.Cause, target)

\* what Convert has to look like once a call of the manager failed with
\* mgrErr while the file at work was rendered
FailedWith(mgrErr) ==
    /\ pc \in {"deferred", "returned"}
    /\ cli.err # NoErr
    /\ cli.err.Msg = <<"failed to convert %s", cli.i>>
    /\ cli.err.Cause.type = "ConversionError"
    /\ cli.err.Cause.File = cli.i
    /\ HasCause(cli.err, mgrErr)
    /\ cli.i \notin cli.written
    /\ cli.read = 1..cli.i
    /\ cli.written = 1..(cli.i - 1)

\* C18: when ApplyTransformers or GenerateContent returns an error while a
\* file is rendered, Convert returns an error for that file that wraps the
\* error of the manager, the PDF of the file is not written, and no later
\* file of the call is read.
Thm_C18 ==
    /\ (applyRes.done /\ applyRes.err # NoErr) => FailedWith(applyRes.err)
    /\ (genRes.done /\ genRes.err # NoErr) => FailedWith(genRes.err)

\* C18 witness: the first file failed in GenerateContent(AfterContent)
\* after its transformers had run, and Convert returned with a second file
\* left
Wit_C18 ==
    /\ pc = "returned"
    /\ genRes.done /\ genRes.err # NoErr /\ genRes.phase = AfterContent
    /\ applyRes.done /\ Len(ApplySteps) > 0
    /\ cli.i = 1 /\ cli.files > 1

\* C18 witness for the transformers: the first file failed in
\* ApplyTransformers and a second file was left
Wit_C18_apply ==
    /\ pc = "returned"
    /\ applyRes.done /\ applyRes.err # NoErr
    /\ cli.i = 1 /\ cli.files > 1

\* the letters of a checksum, whatever their case: a and A are the same
\* letter, 1 is another one
SameLetters(x, y) ==
    /\ Len(x) = Len(y)
    /\ \A i \in 1..Len(x) : (x[i] = "1") <=> (y[i] = "1")

\* C19: IsAllowed(name, checksum) is true exactly when the allowlist has an
\* entry for name, the entry is enabled, and its checksum equals checksum
\* up to the case of the letters; it is false for a name without entry.
Thm_C19 ==
    (pc = "allowlist" /\ vOut.done) =>
        /\ vOut.allowed <=>
              /\ vIn.name \in DOMAIN vIn.allowlist.entries
              /\ vIn.allowlist.entries[vIn.name].Enabled
              /\ SameLetters(vIn.allowlist.entries[vIn.name].Checksum, vIn.checksum)
        /\ vIn.name \notin DOMAIN vIn.allowlist.entries => ~vOut.allowed

\* C19 witness: allowed with a checksum that differs from the entry's in
\* the case of a letter
Wit_C19 ==
    /\ pc = "allowlist" /\ vOut.done
    /\ vOut.allowed
    /\ vIn.allowlist.entries[vIn.name].Checksum # vIn.checksum

\* the file of the call was opened
FileRead ==
    /\ vIn.path # <<>>
    /\ \A k \in 1..Len(vIn.path) : vIn.path[k] # <<".", ".">>
    /\ vIn.file.exists /\ vIn.file.open

\* a line that is neither blank nor a comment and has no colon, or whose
\* checksum has not the length of a SHA-256 or a character that is no hex
\* digit
MalformedLine(l) ==
    \/ l.kind = "nocolon"
    \/ /\ l.kind = "entry"
       /\ \/ Len(l.sum) # SumLen
          \/ \E i \in 1..Len(l.sum) : l.sum[i] \notin {"a", "A", "1"}

MalformedLines == { k \in 1..Len(vIn.file.descs) : MalformedLine(vIn.file.descs[k]) }

\* C20: LoadAllowlistFromFile on a file with a malformed line returns an
\* error with the number of the first such line and no allowlist, also
\* when the lines before it are valid entries.
Thm_C20 ==
    (pc = "loadAllowlist" /\ vOut.done /\ FileRead /\ MalformedLines # {}) =>
        /\ vOut.err # NoErr
        /\ vOut.err.type = "error"
        /\ vOut.err.Msg[2] \in MalformedLines
        /\ \A k \in MalformedLines : vOut.err.Msg[2] <= k
        /\ vOut.allowlist = NilAllowlist

\* C20 witness: a valid entry on line 1, a checksum with a character that
\* is no hex digit on line 2
Wit_C20 ==
    /\ pc = "loadAllowlist" /\ vOut.done /\ FileRead
    /\ Len(vIn.file.descs) >= 2
    /\ vIn.file.descs[1] = EntryLine(NameA, SumA, FALSE)
    /\ vIn.file.descs[2].sum = SumNoHex
    /\ vOut.err # NoErr
    /\ vOut.err.Msg[2] = 2
    /\ vOut.allowlist = NilAllowlist

\* the path of the call is empty, or names a file that does not exist
NoAllowlistFile == vIn.path = <<>> \/ ~vIn.file.exists

\* the call returned an empty allowlist that is not nil, and no error; with
\* it VerifyPlugin takes the branches of the policy flags under every policy
EmptyAllowlistLoaded ==
    /\ vOut.err = NoErr
    /\ vOut.allowlist = NewPluginAllowlist
    /\ \A config \in SecurityConfigs : ~UseAllowlist(config, vOut.allowlist)

\* C21 as stated: LoadAllowlistFromFile on an empty path, or on a path
\* whose file does not exist, returns an empty allowlist and no error.
Orig_C21 ==
    (pc = "loadAllowlist" /\ vOut.done /\ NoAllowlistFile) => EmptyAllowlistLoaded

\* C21: LoadAllowlistFromFile on an empty path, or on a path without a
\* traversal sequence whose file does not exist, returns an empty allowlist
\* and no error, with which VerifyPlugin decides by the policy flags; a
\* path with a traversal sequence is refused whether its file exists or not.
Thm_C21 ==
    (pc = "loadAllowlist" /\ vOut.done /\ NoAllowlistFile) =>
        IF vIn.path # <<>> /\ containsPathTraversal(vIn.path)
        THEN vOut.err.type = "PathTraversalError" /\ vOut.allowlist = NilAllowlist
        ELSE EmptyAllowlistLoaded

\* C21 witness: the file of a path without traversal sequence does not exist
Wit_C21 ==
    /\ pc = "loadAllowlist" /\ vOut.done
    /\ vIn.path = AllowlistPath
    /\ ~vIn.file.exists
    /\ EmptyAllowlistLoaded

\* the segments of a text whose separators are the characters seps
RECURSIVE Segments(_, _)
Segments(text, seps) ==
    IF \E i \in 1..Len(text) : text[i] \in seps
    THEN LET i == CHOOSE j \in 1..Len(text) :
                     text[j] \in seps /\ \A l \in 1..(j - 1) : text[l] \notin seps
         IN <<SubSeq(text, 1, i - 1)>> \o Segments(SubSeq(text, i + 1, Len(text)), seps)
    ELSE <<text>>

\* a segment of the text is "..", with slashes, with backslashes or with
\* both as separators
HasParentSegment(text) ==
    \E seps \in {{"/"}, {"\\"}, {"/", "\\"}} :
        \E k \in 1..Len(Segments(text, seps)) : Segments(text, seps)[k] = <<".", ".">>

IsTraversalError(e) == e.type = "PathTraversalError"

\* C22: a path with a segment "..", its segments separated by slashes or
\* by backslashes, is reported by containsPathTraversal on every platform
\* and refused with a PathTraversalError by ValidatePluginPath,
\* LoadAllowlistFromFile and CalculateFileChecksum.
Thm_C22 ==
    (pc = "guards" /\ vOut.done /\ HasParentSegment(vIn.text)) =>
        /\ \A goos \in Platforms : vOut.traversal[goos]
        /\ IsTraversalError(vOut.validate.err)
        /\ IsTraversalError(vOut.load.err) /\ vOut.load.allowlist = NilAllowlist
        /\ IsTraversalError(vOut.checksum.err) /\ vOut.checksum.sum = <<>>

\* C22 witness: "p\.." where the file exists, refused by the three callers
Wit_C22 ==
    /\ pc = "guards" /\ vOut.done
    /\ vIn.text = <<"p", "\\", ".", ".">>
    /\ vIn.exists /\ vIn.getwd
    /\ vOut.traversal["linux"]
    /\ IsTraversalError(vOut.validate.err)
    /\ IsTraversalError(vOut.load.err)
    /\ IsTraversalError(vOut.checksum.err)

\* the input of ValidatePluginPath is empty or matches the traversal check
RefusedInput == vIn.text = <<>> \/ containsPathTraversalIn(GOOS, vIn.text)

\* an absolute path without empty, "." and ".." segments
IsAbsClean(path) ==
    /\ IsAbs(path)
    /\ \A k \in 2..Len(path) : path[k] \notin {<<>>, <<".">>, <<".", ".">>}

\* ValidatePluginPath returned the absolute, cleaned form of its input
ReturnedCanonical ==
    /\ vOut.validate.err = NoErr
    /\ IsAbsClean(vOut.validate.path)
    /\ vOut.validate.path = Clean(Abs(PathOf(vIn.text)))

\* C23 as stated: ValidatePluginPath fails with a PathTraversalError on an
\* empty input and on a match of the traversal check on the raw input, and
\* returns the absolute, cleaned path and no error for every other input.
Orig_C23 ==
    (pc = "guards" /\ vOut.done) =>
        IF RefusedInput
        THEN IsTraversalError(vOut.validate.err) /\ vOut.validate.path = <<>>
        ELSE ReturnedCanonical

\* C23: as stated, except that a relative input cannot be resolved when
\* the working directory cannot be determined: then ValidatePluginPath
\* returns the error of filepath.Abs, wrapped, and no path.
Thm_C23 ==
    (pc = "guards" /\ vOut.done) =>
        IF RefusedInput
        THEN IsTraversalError(vOut.validate.err) /\ vOut.validate.path = <<>>
        ELSE IF vIn.getwd \/ IsAbs(PathOf(vIn.text))
        THEN ReturnedCanonical
        ELSE /\ vOut.validate.err.type = "wrapped"
             /\ vOut.validate.err.Msg = "failed to resolve plugin directory path"
             /\ vOut.validate.path = <<>>

\* C23 witness: "./p" is resolved against the working directory and cleaned
Wit_C23 ==
    /\ pc = "guards" /\ vOut.done
    /\ vIn.text = <<".", "/", "p">>
    /\ vIn.getwd
    /\ vOut.validate.err = NoErr
    /\ vOut.validate.path = << <<>>, <<"w">>, <<"p">> >>

\* the error CalculateFileChecksum returns for the candidate of the call
ChecksumCause == CalculateFileChecksum(vIn.path, vIn.fs).err

\* C24: when the checksum of the candidate cannot be computed (the path
\* has a traversal pattern, os.Open fails or io.Copy fails), VerifyPlugin
\* returns a PluginSecurityError of operation "checksum" whose cause is
\* that failure, and an event with Success false that carries the failure
\* and nothing else: event and error are the same under every policy and
\* every allowlist.
Thm_C24 ==
    (pc = "verify" /\ vOut.done /\ ~ChecksumComputed) =>
        /\ ChecksumCause # NoErr
        /\ ChecksumCause.type =
              (IF containsPathTraversal(vIn.path) THEN "PathTraversalError" ELSE "wrapped")
        /\ vOut.err = PluginSecurityError(vIn.path, "checksum",
                          "failed to calculate file checksum", ChecksumCause)
        /\ vOut.event = [NewEvent(vIn.path) EXCEPT
                            !.Error = MsgErr("failed to calculate checksum", ChecksumCause)]
        /\ ~vOut.event.Success
        /\ vOut.event.Checksum = <<>>
        /\ vOut.event.SecurityWarning = NoMsg

\* C24 witness: io.Copy fails on a candidate that a non-empty allowlist
\* lists, under a policy that requires verification
Wit_C24 ==
    /\ pc = "verify" /\ vOut.done
    /\ vIn.fs.io = "copy"
    /\ ~containsPathTraversal(vIn.path)
    /\ vIn.config.RequireVerification
    /\ NameListed
    /\ vOut.err.type = "PluginSecurityError"
    /\ vOut.err.Operation = "checksum"
    /\ vOut.err.Cause.type = "wrapped"
    /\ ~vOut.event.Success

\* the last LoadPlugins call left the manager as it found it and called
\* nothing
LoadChangedNothing ==
    /\ plugins = loadRes.before.plugins
    /\ transformers = loadRes.before.transformers
    /\ generators = loadRes.before.generators
    /\ events = loadRes.before.events
    /\ pluginDir = loadRes.dir
    /\ \A i \in Since(loadRes.from) : trace[i].op \notin LoadSteps \cup {"verify"}

\* C25: LoadPlugins on a disabled manager returns nil and leaves the
\* registry, the transformers, the generators, the event log and pluginDir
\* as they were, for every pluginDir: empty, with a traversal sequence,
\* relative, of a directory that is missing, unreadable or holds libraries.
Thm_C25 ==
    (loadRes.done /\ ~enabled) => (loadRes.err = NoErr /\ LoadChangedNothing)

\* C25 witness: a disabled manager on "../p", where a library is present
Wit_C25 ==
    /\ loadRes.done /\ ~enabled
    /\ loadRes.dir = DirUp
    /\ fsys.exists /\ fsys.readable /\ fsys.entries # <<>>
    /\ loadRes.err = NoErr
    /\ pluginDir = DirUp /\ plugins = <<>> /\ events = <<>>

\* the directory the last LoadPlugins call was configured with is accepted
\* by validatePluginDirectory
DirValid == validatePluginDirectory(loadRes.dir, fsys.getwd).err = NoErr

\* C26: LoadPlugins on an enabled manager whose directory is valid and
\* does not exist returns nil, registers nothing and appends no event.
Thm_C26 ==
    (loadRes.done /\ enabled /\ DirValid /\ ~fsys.exists) =>
        /\ loadRes.err = NoErr
        /\ plugins = <<>> /\ transformers = <<>> /\ generators = <<>>
        /\ events = <<>>
        /\ \A i \in Since(loadRes.from) : trace[i].op \notin LoadSteps \cup {"verify"}

\* C26 witness: an enabled manager on "./p", which does not exist
Wit_C26 ==
    /\ loadRes.done /\ enabled
    /\ loadRes.dir = DirPlugins /\ fsys.getwd
    /\ ~fsys.exists
    /\ loadRes.err = NoErr
    /\ pluginDir = << <<>>, <<"w">>, <<"p">> >>
    /\ plugins = <<>> /\ events = <<>>

\* the positions of the directory listing that hold no candidate
Others == (1..Len(fsys.entries)) \ Candidates

\* C27: a LoadPlugins call that reaches the loop verifies the entries
\* whose name ends in .so and no other entry: for an entry with another
\* name nothing is called, no event is appended, no instance is held, and
\* the call returns nil.
Thm_C27 ==
    PassRan =>
        /\ loadRes.err = NoErr
        /\ \A k \in Candidates : HasStep(k, "verify")
        /\ \A k \in Others :
              /\ \A i \in Since(loadRes.from) : trace[i].id # <<pass, k>>
              /\ \A n \in 1..Len(events) :
                    Base(events[n].PluginPath) # fsys.entries[k].name
              /\ \A inst \in Held : inst.id # <<pass, k>>

\* C27 witness: a.txt, a library that would load, next to a candidate
\* that was registered
Wit_C27 ==
    /\ PassRan
    /\ \E k \in Others :
          /\ fsys.entries[k].name = NameTxt
          /\ fsys.entries[k].lib.open /\ fsys.entries[k].lib.plugin.initOk
          /\ \A inst \in Held : inst.id # <<pass, k>>
    /\ \E k \in Candidates : HasStep(k, "register")
    /\ Len(events) = Cardinality(Candidates)

\* the candidates of the last pass that were registered under the name
RegisteredAs(name) ==
    { k \in Candidates : HasStep(k, "register") /\ fsys.entries[k].lib.plugin.name = name }

\* the names under which a candidate of the last pass was registered
RegisteredNames ==
    { fsys.entries[k].lib.plugin.name : k \in { l \in Candidates : HasStep(l, "register") } }

\* C28: after a LoadPlugins call the map has one instance for every name
\* under which a candidate was registered, that of the last candidate of
\* the directory whose Init succeeded and that declared the name; and
\* ListPlugins returns one PluginInfo for every name of the map, that of
\* the instance the map holds, in some order.
Thm_C28 ==
    PassRan =>
        /\ DOMAIN plugins = RegisteredNames
        /\ \A name \in DOMAIN plugins :
              /\ plugins[name].p.name = name
              /\ plugins[name].id[2] \in RegisteredAs(name)
              /\ \A k \in RegisteredAs(name) : k <= plugins[name].id[2]
        /\ vOut.done =>
              /\ Len(vOut.list) = Cardinality(DOMAIN plugins)
              /\ \A name \in DOMAIN plugins :
                    \E i \in 1..Len(vOut.list) :
                       /\ vOut.list[i] = PluginInfo(plugins[name])
                       /\ \A j \in 1..Len(vOut.list) :
                             vOut.list[j].Name = name => j = i

\* C28 witness: a.so and b.so were registered as "toc", c.so declares
\* "toc" and its Init failed; the map and the list have the instance of b.so
Wit_C28 ==
    /\ PassRan /\ vOut.done
    /\ RegisteredAs(NameToc) = {1, 2}
    /\ StepFailed(3, "init") /\ fsys.entries[3].lib.plugin.name = NameToc
    /\ plugins[NameToc].id = <<1, 2>>
    /\ vOut.list = <<PluginInfo(Instance(<<1, 2>>, fsys.entries[2].lib.plugin))>>

\* the log after a step is the log before it, followed by what the step
\* appended
LogExtended ==
    /\ Len(events') >= Len(events)
    /\ SubSeq(events', 1, Len(events)) = events

\* C29: no step removes or changes an event of the log (LoadPlugins
\* appends, ApplyTransformers and Cleanup leave the log alone); the slice
\* GetSecurityEvents returns holds the events of the log, and a write into
\* that slice leaves the log as it is.
Thm_C29 ==
    [][/\ LogExtended
       /\ (~vOut.done /\ vOut'.done) => (vOut'.list = events /\ events' = events)
       /\ (vOut.done /\ vOut' # vOut) => events' = events]_vars

\* C29 witness: the caller changed its slice, the log still has the
\* events it had, and a later LoadPlugins appended to them
Wit_C29 ==
    /\ vOut.done /\ vOut.changed
    /\ Len(vOut.list) > 0
    /\ Len(events) > Len(vOut.list)
    /\ SubSeq(events, 1, Len(vOut.list)) # vOut.list
    /\ \E i \in 1..Len(vOut.list) :
          SubSeq(events, 1, Len(vOut.list)) = [vOut.list EXCEPT ![i].Success = ~@]

\* the calls Render made on the manager for the file, in order
RenderCalls(file) == SelectSeq(cli.calls, LAMBDA c : c.file = file)

\* the files of the Convert call whose Render was entered and has returned
Rendered ==
    { f \in 1..cli.files :
        /\ RenderCalls(f) # <<>>
        /\ f < cli.i \/ pc \in {"write", "file", "deferred", "returned"} }

\* the calls of a Render so far: GenerateContent(BeforeContent), then the
\* walk of the body, then GenerateContent(AfterContent), each once and
\* each only after the one before it returned no error
InRenderOrder(c) ==
    /\ Len(c) \in 1..3
    /\ c[1].what = "before"
    /\ Len(c) >= 2 => (c[1].ok /\ c[2].what = "walk")
    /\ Len(c) = 3 => (c[2].ok /\ c[3].what = "after")

\* C30 as stated: every Render calls GenerateContent(BeforeContent) once,
\* before the body is walked, and GenerateContent(AfterContent) once,
\* after the body was walked.
Orig_C30 ==
    pc # "call" =>
        \A f \in Rendered : InRenderOrder(RenderCalls(f)) /\ Len(RenderCalls(f)) = 3

\* C30: every Render calls GenerateContent(BeforeContent) once and first;
\* a Render in which it and the walk of the body returned no error calls
\* GenerateContent(AfterContent) once, after the walk; a Render in which
\* one of the two failed returns without calling GenerateContent(AfterContent).
Thm_C30 ==
    pc # "call" =>
        /\ \A f \in 1..cli.files :
              RenderCalls(f) # <<>> => InRenderOrder(RenderCalls(f))
        /\ \A f \in Rendered :
              LET c == RenderCalls(f) IN
              (Len(c) = 3) <=> (c[1].ok /\ Len(c) >= 2 /\ c[2].ok)

\* C30 witness: with a generator for BeforeContent and a transformer
\* loaded, the Render of each of two files made the three calls in order
Wit_C30 ==
    /\ pc = "returned"
    /\ Rendered = {1, 2}
    /\ generators # <<>> /\ transformers # <<>>
    /\ \A f \in Rendered :
          /\ Len(RenderCalls(f)) = 3
          /\ RenderCalls(f)[1].what = "before"
          /\ RenderCalls(f)[2].what = "walk"
          /\ RenderCalls(f)[3].what = "after" /\ RenderCalls(f)[3].ok

\* the number of applyTransformers calls of the walk for the node
CallsFor(id) == Cardinality({ k \in 1..Len(cli.calls) : cli.calls[k] = id })

\* the nodes of the parsed document that were rendered
RenderedOfDocument ==
    { cli.rendered[k] : k \in 1..Len(cli.rendered) } \ {NewNodeId}

\* C31 as the specification states it: once a render has rendered the
\* tree, applyTransformers was called exactly once for every node of the
\* parsed document that was rendered, the nodes that follow a replaced node
\* included.  The walk of applyTransformers leaves the children of a parent
\* at the first child that is replaced.
Orig_C31 ==
    (pc = "returned" /\ cli.rendered # <<>>) =>
        \A id \in RenderedOfDocument : CallsFor(id) = 1

\* C32: ApplyTransformers on a manager without transformers returns the
\* node it was handed, unchanged, and no error, and calls no Transform,
\* whatever the kind of the node.
Thm_C32 ==
    (applyRes.done /\ transformers = <<>>) =>
        /\ applyRes.node = applyRes.in
        /\ applyRes.err = NoErr
        /\ ApplySteps = <<>>

\* C32 witness: a manager that loaded a directory without a transformer
\* was handed a heading
Wit_C32 ==
    /\ applyRes.done
    /\ loadRes.done
    /\ transformers = <<>>
    /\ applyRes.in = Node("Heading")
    /\ applyRes.node = Node("Heading")

\* the candidate lies outside the working directory and outside every
\* trusted directory
OutsideEveryDirectory ==
    LET wd == IsPathInWorkingDirectory(vIn.path, vIn.fs) IN
    /\ wd.err = NoErr
    /\ ~wd.ok
    /\ ~IsPathInTrustedDirectory(vIn.path, vIn.fs, vIn.config.TrustedDirectories)

PathWarning ==
    Msg("plugin loaded from directory outside current working directory and trusted paths")

\* C33 as the specification states it: for a candidate outside the working
\* directory and every trusted directory, the event of every outcome after
\* the checksum step carries the path-safety warning.  The success without
\* a usable allowlist writes its own warning over it.
Orig_C33 ==
    (vOut.done /\ ChecksumComputed /\ OutsideEveryDirectory) =>
        vOut.event.SecurityWarning = PathWarning

\* two dots in a row somewhere in the text
HasTwoDots(text) ==
    \E i \in 1..(Len(text) - 1) : text[i] = "." /\ text[i + 1] = "."

\* C34 as the specification states it: a path is reported as traversal only
\* if one of its segments, split on slashes and backslashes, is "..".
Orig_C34 ==
    (pc = "guards" /\ vOut.done) =>
        \A goos \in Platforms : vOut.traversal[goos] => HasParentSegment(vIn.text)

\* C34: containsPathTraversal reports a path, on every platform, exactly
\* when its text has two dots in a row anywhere: every path with a segment
\* ".." is reported, and so is a path such as "p..p" or "..." none of
\* whose segments is "..".
Thm_C34 ==
    (pc = "guards" /\ vOut.done) =>
        /\ \A goos \in Platforms : vOut.traversal[goos] <=> HasTwoDots(vIn.text)
        /\ HasParentSegment(vIn.text) => HasTwoDots(vIn.text)

\* C34 witness: "p..p" has the one segment "p..p" and is reported
Wit_C34 ==
    /\ pc = "guards" /\ vOut.done
    /\ vIn.text = <<"p", ".", ".", "p">>
    /\ ~HasParentSegment(vIn.text)
    /\ vOut.traversal["linux"] /\ vOut.traversal["windows"]
    /\ IsTraversalError(vOut.validate.err)

\* the step is a Transform or a Generate call on an instance
IsInvocation(step) == step.op \in {"transform", "generate"}

\* C35 as the specification states it: over the Convert calls on one
\* Engine, no instance is handed a node or asked for content after its
\* Cleanup was called.  Cleanup leaves the instances in the transformer and
\* generator lists, and the next Convert applies them again.
Orig_C35 ==
    \A i \in 1..Len(trace), j \in 1..Len(trace) :
        (i < j /\ trace[i].op = "cleanup" /\ IsInvocation(trace[j])) =>
            trace[j].id # trace[i].id

\* every entry of the list is the instance the registry holds under the
\* name it declares, and no instance stands twice in the list
ListOfRegistry(list) ==
    /\ \A k \in 1..Len(list) :
          list[k].p.name \in DOMAIN plugins /\ plugins[list[k].p.name] = list[k]
    /\ \A k \in 1..Len(list), l \in 1..Len(list) : list[k].id = list[l].id => k = l

\* C36 as the specification states it: after a load pass the transformer
\* list and every generator list hold only instances the registry holds
\* under their names, each once.  loadPlugin overwrites the registry entry
\* of a name and leaves the instance that had it in the lists.
Orig_C36 ==
    loadRes.done =>
        /\ ListOfRegistry(transformers)
        /\ \A ph \in DOMAIN generators : ListOfRegistry(generators[ph])

\* C37 as the specification states it: a SetSecurityConfig call that
\* returned an error left the policy and the allowlist of the manager as
\* they were.  The policy is assigned before the allowlist is loaded, and
\* stays assigned when the load fails.
Orig_C37 ==
    (vOut.done /\ vOut.err # NoErr) =>
        /\ securityConfig = vOut.before.config
        /\ allowlist = vOut.before.allowlist

\* the step of the last pass on the candidate at position k succeeded
StepPassed(k, op) == \E i \in PassSteps(k) : trace[i].op = op /\ trace[i].ok

\* the event the last pass appended for the n-th candidate
EventOf(n) == events[Len(loadRes.before.events) + n]

\* C38: the event a load pass appends for a candidate is marked successful
\* exactly when the instance of the candidate was initialised and
\* registered, so not when verification passed and a later step (open,
\* lookup, Init) failed; an event marked failed carries an error text, an
\* event marked successful none.
Thm_C38 ==
    PassRan =>
        LET c == CandidatesFrom(1) IN
        \A n \in 1..Len(c) :
            /\ EventOf(n).Success <=> (StepPassed(c[n], "init") /\ HasStep(c[n], "register"))
            /\ FailedAt(c[n]) => ~EventOf(n).Success
            /\ ~EventOf(n).Success => EventOf(n).Error # NoMsg
            /\ EventOf(n).Success => EventOf(n).Error = NoMsg

\* C38 witness: a candidate passed verification and failed at a later
\* step, its event is marked failed and has the error; another candidate
\* was registered and its event is marked successful
Wit_C38 ==
    /\ PassRan
    /\ LET c == CandidatesFrom(1) IN
       /\ \E n \in 1..Len(c) :
             /\ StepPassed(c[n], "verify")
             /\ StepFailed(c[n], "open") \/ StepFailed(c[n], "lookup") \/ StepFailed(c[n], "init")
             /\ ~EventOf(n).Success /\ EventOf(n).Error # NoMsg
       /\ \E n \in 1..Len(c) :
             /\ StepFailed(c[n], "verify")
             /\ ~EventOf(n).Success /\ EventOf(n).Error # NoMsg
       /\ \E n \in 1..Len(c) : HasStep(c[n], "register") /\ EventOf(n).Success

\* C39 as the specification states it: the content plugin.Open loads is
\* the content whose checksum the verification approved, also when another
\* process replaces the file between the two.  loadPlugin opens the file a
\* second time by its path and loads whatever is there then.
Orig_C39 ==
    (pc = "loaded" /\ cli.opened # <<>>) => cli.opened = cli.seen

====
